---------------------------- MODULE Spec2Model ----------------------------
(***************************************************************************)
(* Model of the Smart City dashboard: the Environment module               *)
(* (src/js/environment.js) with the AQI computation of                     *)
(* EnvironmentalDataManager, the health risks and the forecasts derived    *)
(* from it; the Emergency module (src/js/emergency.js) with its incidents, *)
(* resources and response statistics; the traffic module                   *)
(* (src/unnamed/part_000) with the predictions made at page load; the      *)
(* journey planner of src/js/transportation.js; the reported issues,       *)
(* projects and notifications of src/js/citizen.js.                        *)
(*                                                                         *)
(* Numbers.  A concentration is an integer count of twentieths (0.05) of   *)
(* the pollutant's unit, so that the one-decimal literals of the           *)
(* breakpoint tables are integers and a value between two table entries    *)
(* (12.05, 54.5) can be written.  Arithmetic is exact: Math.round is       *)
(* round-half-up on the exact quotient.  A JavaScript argument is a        *)
(* record [defined, val]; `undefined` is [defined |-> FALSE].              *)
(*                                                                         *)
(* Environment.  Math.random() is a seeded generator: rngSeed selects the  *)
(* sequence it yields, each value a multiple of 1 / RandomLevels.          *)
(* new Date() is read as the local hour, taken as constant during one      *)
(* handler.  Coordinates, units and ISO timestamps of the records are      *)
(* left out; a forecast entry keeps its hour instead.                      *)
(*                                                                         *)
(* Specifications.  Spec is the environmental manager: initialize() and    *)
(* the query getPersonalizedRecommendations().  SpecAQI applies the pure   *)
(* methods (calculate*AQI, calculateAQI, getAQICategory) to arguments      *)
(* drawn in its initial state.  SpecRisk computes the health risks of a    *)
(* sensor with a drawn reading.  SpecForecast runs generateForecasts()     *)
(* hour by hour.  SpecEmergency is the emergency manager under calls that  *)
(* assign and release resources.  SpecTraffic is the traffic page from     *)
(* page load on.  SpecRoute applies findOptimalRoute to the stops and      *)
(* routes that loadSampleStops and loadSampleRoutes build.  SpecResponse   *)
(* is the emergency manager under addIncident, updateIncidentStatus,       *)
(* assignment, release and findOptimalResourceAllocation.  SpecCitizen is  *)
(* the citizen manager under addIssue, updateIssueStatus and the votes.    *)
(* SpecManagers runs the methods of both managers on one page.             *)
(*                                                                         *)
(* The citizen module draws vote counts from a finer generator,            *)
(* RandomFine, whose values are multiples of 1 / FineLevels.               *)
(***************************************************************************)
EXTENDS Integers, Sequences, FiniteSets, TLC

VARIABLES
    call,             \* the method invocation in progress: [op, ...arguments]
    ret,              \* its outcome: Pending, Returned(v) or Thrown(e)
    sensors,          \* EnvironmentalDataManager.sensors
    pollutionSources, \* EnvironmentalDataManager.pollutionSources
    healthRisks,      \* EnvironmentalDataManager.healthRisks
    forecasts,        \* EnvironmentalDataManager.forecasts
    initialized,      \* EnvironmentalDataManager.initialized
    rngSeed,          \* the state of the generator behind Math.random
    clockHour,        \* the local hour that new Date() reads
    forecastRun,      \* generateForecasts in progress: its loop variables
    emergencyManager, \* the EmergencyManager instance of emergency.js
    emergencyCalls,   \* calls its caller has made on it since initialize()
    trafficPredictor, \* the TrafficPredictor instance of the traffic module
    microtasks,       \* continuations of async functions waiting to run
    trafficModule,    \* how far the traffic module's page-load handler is
    transportationManager, \* the TransportationManager of transportation.js
    citizenManager,   \* the CitizenEngagementManager of citizen.js
    citizenCalls      \* calls its caller has made on it since initialize()

manager == <<sensors, pollutionSources, healthRisks, forecasts, initialized>>
env == <<rngSeed, clockHour>>
emergency == <<emergencyManager, emergencyCalls>>
traffic == <<trafficPredictor, microtasks, trafficModule>>
transport == <<transportationManager>>
citizen == <<citizenManager, citizenCalls>>
\* the state outside environment.js
outsideEnvironment == <<emergency, traffic, transport, citizen>>
\* the state that no step of initialize() and of the queries touches
outsideManager == <<forecastRun, outsideEnvironment>>
\* the state outside emergency.js and outside the traffic module
outsideEmergency == <<manager, env, forecastRun, traffic, transport, citizen>>
outsideTraffic == <<manager, env, forecastRun, emergency, transport, citizen>>
outsideTransport == <<manager, env, forecastRun, emergency, traffic, citizen>>
outsideCitizen == <<manager, env, forecastRun, emergency, traffic, transport>>
\* the state outside emergency.js and citizen.js
vars == <<call, ret, manager, env, outsideManager>>

---------------------------------------------------------------------------
(* JavaScript values *)

Undefined == [defined |-> FALSE, val |-> 0]
Num(n) == [defined |-> TRUE, val |-> n]

\* a literal with one decimal, given in tenths, as a count of twentieths
Units(tenths) == 2 * tenths

\* x >= y, x <= y, x > y on a possibly-undefined x: a comparison with
\* undefined (NaN) is false
JsGE(x, y) == x.defined /\ x.val >= y
JsLE(x, y) == x.defined /\ x.val <= y
JsGT(x, y) == x.defined /\ x.val > y

\* Math.round(num / den) for den > 0: the nearest integer, halves upwards
MathRound(num, den) == (2 * num + den) \div (2 * den)

\* Math.max over a non-empty set of numbers
MathMax(S) == CHOOSE m \in S : \A x \in S : x <= m

Pending == [status |-> "pending", value |-> 0]
Returned(v) == [status |-> "returned", value |-> v]
Thrown(e) == [status |-> "thrown", value |-> e]

---------------------------------------------------------------------------
(* The breakpoint tables, environment.js 160-267 *)

Pollutants == {"pm25", "pm10", "no2", "so2", "co", "o3"}

BP(lo, hi, aqiLo, aqiHi) ==
    [min |-> Units(lo), max |-> Units(hi), minAQI |-> aqiLo, maxAQI |-> aqiHi]

PM25Breakpoints ==
    << BP(0, 120, 0, 50),      BP(121, 354, 51, 100),
       BP(355, 554, 101, 150), BP(555, 1504, 151, 200),
       BP(1505, 2504, 201, 300), BP(2505, 5004, 301, 500) >>

PM10Breakpoints ==
    << BP(0, 540, 0, 50),        BP(550, 1540, 51, 100),
       BP(1550, 2540, 101, 150), BP(2550, 3540, 151, 200),
       BP(3550, 4240, 201, 300), BP(4250, 6040, 301, 500) >>

NO2Breakpoints ==
    << BP(0, 530, 0, 50),        BP(540, 1000, 51, 100),
       BP(1010, 3600, 101, 150), BP(3610, 6490, 151, 200),
       BP(6500, 12490, 201, 300), BP(12500, 20490, 301, 500) >>

SO2Breakpoints ==
    << BP(0, 350, 0, 50),       BP(360, 750, 51, 100),
       BP(760, 1850, 101, 150), BP(1860, 3040, 151, 200),
       BP(3050, 6040, 201, 300), BP(6050, 10040, 301, 500) >>

COBreakpoints ==
    << BP(0, 44, 0, 50),      BP(45, 94, 51, 100),
       BP(95, 124, 101, 150), BP(125, 154, 151, 200),
       BP(155, 304, 201, 300), BP(305, 504, 301, 500) >>

O3Breakpoints ==
    << BP(0, 540, 0, 50),       BP(550, 700, 51, 100),
       BP(710, 850, 101, 150),  BP(860, 1050, 151, 200),
       BP(1060, 2000, 201, 300), BP(2010, 5040, 301, 500) >>

Breakpoints(p) ==
    CASE p = "pm25" -> PM25Breakpoints
      [] p = "pm10" -> PM10Breakpoints
      [] p = "no2"  -> NO2Breakpoints
      [] p = "so2"  -> SO2Breakpoints
      [] p = "co"   -> COBreakpoints
      [] p = "o3"   -> O3Breakpoints

---------------------------------------------------------------------------
(* calculateAQIFromBreakpoints, environment.js 275-294 *)

\* the value of the interpolation line of bracket bp at concentration c,
\* as the fraction InterpNum / InterpDen
InterpNum(bp, c) ==
    (bp.maxAQI - bp.minAQI) * (c - bp.min) + bp.minAQI * (bp.max - bp.min)
InterpDen(bp) == bp.max - bp.min

\* variants of calculateAQIFromBreakpoints with one slip each
calculateAQIFromBreakpointsFloor(concentration, breakpoints) ==
    LET hits == {i \in 1..Len(breakpoints) :
                    /\ JsGE(concentration, breakpoints[i].min)
                    /\ JsLE(concentration, breakpoints[i].max)}
        last == breakpoints[Len(breakpoints)]
    IN  IF hits # {}
        THEN LET bp == breakpoints[CHOOSE i \in hits : \A j \in hits : i <= j]
             IN  InterpNum(bp, concentration.val) \div InterpDen(bp)
        ELSE IF JsGT(concentration, last.max) THEN last.maxAQI ELSE 0

calculateAQIFromBreakpointsExtrapolate(concentration, breakpoints) ==
    LET hits == {i \in 1..Len(breakpoints) :
                    /\ JsGE(concentration, breakpoints[i].min)
                    /\ (JsLE(concentration, breakpoints[i].max)
                          \/ (i = Len(breakpoints) /\ concentration.defined))}
        last == breakpoints[Len(breakpoints)]
    IN  IF hits # {}
        THEN LET bp == breakpoints[CHOOSE i \in hits : \A j \in hits : i <= j]
             IN  MathRound(InterpNum(bp, concentration.val), InterpDen(bp))
        ELSE IF JsGT(concentration, last.max) THEN last.maxAQI ELSE 0

calculateAQIFromBreakpointsOpenHigh(concentration, breakpoints) ==
    LET hits == {i \in 1..Len(breakpoints) :
                    /\ JsGE(concentration, breakpoints[i].min)
                    /\ concentration.val < breakpoints[i].max}
        last == breakpoints[Len(breakpoints)]
    IN  IF hits # {}
        THEN LET bp == breakpoints[CHOOSE i \in hits : \A j \in hits : i <= j]
             IN  MathRound(InterpNum(bp, concentration.val), InterpDen(bp))
        ELSE IF JsGT(concentration, last.max) THEN last.maxAQI ELSE 0

calculateAQIFromBreakpointsNoLowCheck(concentration, breakpoints) ==
    LET hits == {i \in 1..Len(breakpoints) :
                    JsLE(concentration, breakpoints[i].max)}
        last == breakpoints[Len(breakpoints)]
    IN  IF hits # {}
        THEN LET bp == breakpoints[CHOOSE i \in hits : \A j \in hits : i <= j]
             IN  MathRound(InterpNum(bp, concentration.val), InterpDen(bp))
        ELSE IF JsGT(concentration, last.max) THEN last.maxAQI ELSE 0

\* The for-loop returns from the first bracket with min <= c <= max; with
\* none, the last bracket's maxAQI above the table and 0 otherwise.
calculateAQIFromBreakpoints(concentration, breakpoints) ==
    LET hits == {i \in 1..Len(breakpoints) :
                    /\ JsGE(concentration, breakpoints[i].min)
                    /\ JsLE(concentration, breakpoints[i].max)}
        last == breakpoints[Len(breakpoints)]
    IN  IF hits # {}
        THEN LET bp == breakpoints[CHOOSE i \in hits : \A j \in hits : i <= j]
             IN  MathRound(InterpNum(bp, concentration.val), InterpDen(bp))
        ELSE IF JsGT(concentration, last.max) THEN last.maxAQI ELSE 0

calculatePM25AQI(concentration) ==
    calculateAQIFromBreakpoints(concentration, PM25Breakpoints)
calculatePM10AQI(concentration) ==
    calculateAQIFromBreakpoints(concentration, PM10Breakpoints)
calculateNO2AQI(concentration) ==
    calculateAQIFromBreakpoints(concentration, NO2Breakpoints)
calculateSO2AQI(concentration) ==
    calculateAQIFromBreakpoints(concentration, SO2Breakpoints)
calculateCOAQI(concentration) ==
    calculateAQIFromBreakpoints(concentration, COBreakpoints)
calculateO3AQI(concentration) ==
    calculateAQIFromBreakpoints(concentration, O3Breakpoints)

\* the per-pollutant method by pollutant key
SubIndex(p, concentration) ==
    CASE p = "pm25" -> calculatePM25AQI(concentration)
      [] p = "pm10" -> calculatePM10AQI(concentration)
      [] p = "no2"  -> calculateNO2AQI(concentration)
      [] p = "so2"  -> calculateSO2AQI(concentration)
      [] p = "co"   -> calculateCOAQI(concentration)
      [] p = "o3"   -> calculateO3AQI(concentration)

---------------------------------------------------------------------------
(* calculateAQI, environment.js 141-153; getAQICategory, 301-315 *)

calculateAQIAverage(pm25, pm10, no2, so2, co, o3) ==
    (calculatePM25AQI(pm25) + calculatePM10AQI(pm10) + calculateNO2AQI(no2)
       + calculateSO2AQI(so2) + calculateCOAQI(co) + calculateO3AQI(o3)) \div 6

\* variant: only the readings given take part, 50 standing in for none
calculateAQIPresentOnly(pm25, pm10, no2, so2, co, o3) ==
    LET given == {r \in {<<"pm25", pm25>>, <<"pm10", pm10>>, <<"no2", no2>>,
                         <<"so2", so2>>, <<"co", co>>, <<"o3", o3>>} :
                     r[2].defined}
    IN  IF given = {} THEN 50
        ELSE MathMax({SubIndex(r[1], r[2]) : r \in given})

calculateAQI(pm25, pm10, no2, so2, co, o3) ==
    MathMax({calculatePM25AQI(pm25), calculatePM10AQI(pm10),
             calculateNO2AQI(no2), calculateSO2AQI(so2),
             calculateCOAQI(co), calculateO3AQI(o3)})

getAQICategoryStrict(aqi) ==
    IF aqi < 50 THEN "good"
    ELSE IF aqi < 100 THEN "moderate"
    ELSE IF aqi < 150 THEN "unhealthy_for_sensitive"
    ELSE IF aqi < 200 THEN "unhealthy"
    ELSE IF aqi < 300 THEN "very_unhealthy"
    ELSE "hazardous"

getAQICategory(aqi) ==
    IF aqi <= 50 THEN "good"
    ELSE IF aqi <= 100 THEN "moderate"
    ELSE IF aqi <= 150 THEN "unhealthy_for_sensitive"
    ELSE IF aqi <= 200 THEN "unhealthy"
    ELSE IF aqi <= 300 THEN "very_unhealthy"
    ELSE "hazardous"

---------------------------------------------------------------------------
(* Math.random and the sample sensors, environment.js 41-128 *)

NumSeeds == 8       \* generator states tried
RandomLevels == 8   \* Math.random yields k / RandomLevels, k < RandomLevels

\* The k-th value Math.random() returns after start-up, as the numerator of
\* a fraction over RandomLevels.  The generator is deterministic once
\* seeded; which sequence it yields is decided by rngSeed.
Random(k) == (rngSeed * (2 * k + 1) + k * k) % RandomLevels

JsMax(a, b) == IF a >= b THEN a ELSE b
JsMin(a, b) == IF a <= b THEN a ELSE b

\* sensorLocations, by name (lat/lng are not modelled)
sensorLocations ==
    << "Downtown", "Westside", "Eastside", "Northside", "Southside",
       "Central Park", "Industrial Zone", "Residential Area" >>

\* `sensor_${(index + 1).toString().padStart(3, '0')}` for the indices used
SensorId(i) ==
    << "sensor_001", "sensor_002", "sensor_003", "sensor_004",
       "sensor_005", "sensor_006", "sensor_007", "sensor_008" >>[i]

\* the profile chosen from the location's name, environment.js 57-66
pollutionProfile(name) ==
    IF name = "Industrial Zone" THEN "industrial"
    ELSE IF name \in {"Downtown", "Central Park"} THEN "urban"
    ELSE IF name = "Residential Area" THEN "residential"
    ELSE "mixed"

\* baseValues; co in tenths of ppm, the others in whole units
baseValues(profile) ==
    CASE profile = "industrial" ->
            [pm25 |-> 35, pm10 |-> 70, no2 |-> 40, so2 |-> 30, co |-> 15, o3 |-> 50]
      [] profile = "urban" ->
            [pm25 |-> 20, pm10 |-> 40, no2 |-> 30, so2 |-> 15, co |-> 10, o3 |-> 40]
      [] profile = "residential" ->
            [pm25 |-> 10, pm10 |-> 25, no2 |-> 15, so2 |-> 5, co |-> 5, o3 |-> 30]
      [] OTHER ->
            [pm25 |-> 15, pm10 |-> 35, no2 |-> 25, so2 |-> 10, co |-> 8, o3 |-> 35]

\* Math.max(0, Math.round(base + (Math.random() - 0.5) * spread)) with
\* Math.random() = r / RandomLevels; for co base and spread are in tenths
\* and the rounding is toFixed(1)'s
Vary(base, spread, r) ==
    JsMax(0, MathRound(2 * RandomLevels * base + spread * (2 * r - RandomLevels),
                       2 * RandomLevels))

\* the readings object generateSensorReadings returns for the six
\* concentrations it has drawn, environment.js 113-127
sensorReadings(pm25, pm10, no2, so2, co, o3) ==
    LET aqi == calculateAQI(Num(pm25), Num(pm10), Num(no2),
                            Num(so2), Num(co), Num(o3))
    IN  [pm25 |-> [value |-> pm25], pm10 |-> [value |-> pm10],
         no2 |-> [value |-> no2], so2 |-> [value |-> so2],
         co |-> [value |-> co], o3 |-> [value |-> o3],
         aqi |-> [value |-> aqi, category |-> getAQICategory(aqi)]]

\* generateSensorReadings, drawing Math.random() values number k+1 .. k+6.
\* Readings are kept in concentration units (twentieths).
generateSensorReadings(profile, k) ==
    LET base == baseValues(profile)
    IN  sensorReadings(20 * Vary(base.pm25, 10, Random(k + 1)),
                       20 * Vary(base.pm10, 20, Random(k + 2)),
                       20 * Vary(base.no2, 10, Random(k + 3)),
                       20 * Vary(base.so2, 5, Random(k + 4)),
                       Units(Vary(base.co, 5, Random(k + 5))),
                       20 * Vary(base.o3, 15, Random(k + 6)))

\* loadSampleSensorData: the sensors pushed, in order
loadSampleSensorData ==
    [i \in 1..Len(sensorLocations) |->
        [id |-> SensorId(i),
         location |-> [name |-> sensorLocations[i]],
         type |-> "air_quality",
         readings |-> generateSensorReadings(
                          pollutionProfile(sensorLocations[i]), 6 * (i - 1))]]

\* loadSamplePollutionSources, environment.js 320-377
loadSamplePollutionSources ==
    << [id |-> "source_001", type |-> "industrial", emissionLevel |-> "high",
        pollutants |-> <<"pm25", "pm10", "so2">>],
       [id |-> "source_002", type |-> "transportation", emissionLevel |-> "medium",
        pollutants |-> <<"no2", "pm25", "co">>],
       [id |-> "source_003", type |-> "construction", emissionLevel |-> "medium",
        pollutants |-> <<"pm10", "pm25">>],
       [id |-> "source_004", type |-> "energy", emissionLevel |-> "high",
        pollutants |-> <<"so2", "no2", "pm25">>],
       [id |-> "source_005", type |-> "waste", emissionLevel |-> "medium",
        pollutants |-> <<"pm10", "so2">>] >>

---------------------------------------------------------------------------
(* calculateHealthRisks and generateHealthRecommendations, 382-518 *)

Groups == {"general", "elderly", "children", "respiratory", "cardiovascular"}

\* variant of riskFactors: the factors of children and elderly exchanged
riskFactorsExchanged(group) ==
    CASE group = "general" -> 10
      [] group = "elderly" -> 13
      [] group = "children" -> 15
      [] group = "respiratory" -> 20
      [] group = "cardiovascular" -> 18

\* riskFactors, in tenths
riskFactors(group) ==
    CASE group = "general" -> 10
      [] group = "elderly" -> 15
      [] group = "children" -> 13
      [] group = "respiratory" -> 20
      [] group = "cardiovascular" -> 18

MsgMinimal == "Air quality is good. No special precautions needed."
MsgLow == "Air quality is acceptable. Unusually sensitive individuals should consider reducing prolonged outdoor exertion."
MsgModerate1 == "Members of sensitive groups may experience health effects. The general public is less likely to be affected."
MsgModerate2 == "Consider reducing prolonged or heavy outdoor exertion."
MsgHigh1 == "Everyone may begin to experience health effects. Members of sensitive groups may experience more serious effects."
MsgHigh2 == "Avoid prolonged or heavy outdoor exertion. Consider moving activities indoors or rescheduling."
MsgVeryHigh1 == "Health alert: The risk of health effects is increased for everyone."
MsgVeryHigh2 == "Avoid all outdoor physical activity. Stay indoors with windows closed if possible."
MsgSevere1 == "Health warning of emergency conditions: everyone is more likely to be affected."
MsgSevere2 == "Remain indoors with windows closed. If available, use air purifiers."
MsgSevere3 == "Wear N95 masks if outdoor activity is unavoidable."
MsgElderly == "Elderly individuals should take extra precautions to limit exposure."
MsgElderlyHigh == "Consider checking in with healthcare provider if respiratory symptoms develop."
MsgChildren == "Children should reduce outdoor play time."
MsgChildrenHigh == "Keep children indoors with windows closed."
MsgRespiratory == "Individuals with respiratory conditions should have medication readily available."
MsgRespiratoryMask == "Consider using a mask (N95 or better) when outdoors."
MsgRespiratoryIndoors == "Stay indoors and use air purifiers if available."
MsgRespiratoryContact == "Contact healthcare provider if symptoms worsen."
MsgCardio == "Individuals with cardiovascular conditions should avoid physical exertion."
MsgCardioHigh1 == "Stay in air-conditioned environments when possible."
MsgCardioHigh2 == "Monitor blood pressure and contact healthcare provider if unusual symptoms occur."

HighLevels == {"high", "very_high", "severe"}

\* the general part of the recommendations, environment.js 463-487
generalRecommendations(riskLevel) ==
    CASE riskLevel = "minimal" -> <<MsgMinimal>>
      [] riskLevel = "low" -> <<MsgLow>>
      [] riskLevel = "moderate" -> <<MsgModerate1, MsgModerate2>>
      [] riskLevel = "high" -> <<MsgHigh1, MsgHigh2>>
      [] riskLevel = "very_high" -> <<MsgVeryHigh1, MsgVeryHigh2>>
      [] riskLevel = "severe" -> <<MsgSevere1, MsgSevere2, MsgSevere3>>
      [] OTHER -> <<>>

\* the part for the elderly, children and cardiovascular groups, 490-517
otherGroupRecommendations(riskLevel, demographicGroup) ==
    IF demographicGroup = "elderly" /\ riskLevel # "minimal"
    THEN <<MsgElderly>>
           \o (IF riskLevel \in HighLevels THEN <<MsgElderlyHigh>> ELSE <<>>)
    ELSE IF demographicGroup = "children" /\ riskLevel # "minimal"
    THEN <<MsgChildren>>
           \o (IF riskLevel \in HighLevels THEN <<MsgChildrenHigh>> ELSE <<>>)
    ELSE IF demographicGroup = "cardiovascular" /\ riskLevel # "minimal"
    THEN <<MsgCardio>>
           \o (IF riskLevel \in HighLevels
               THEN <<MsgCardioHigh1, MsgCardioHigh2>> ELSE <<>>)
    ELSE <<>>

\* variant of generateHealthRecommendations: the respiratory group is told
\* of the mask from the high level on only
generateHealthRecommendationsMaskLate(riskLevel, demographicGroup) ==
    generalRecommendations(riskLevel)
      \o (IF demographicGroup = "respiratory" /\ riskLevel # "minimal"
          THEN <<MsgRespiratory>>
                 \o (IF riskLevel = "high" THEN <<MsgRespiratoryMask>> ELSE <<>>)
                 \o (IF riskLevel \in {"very_high", "severe"}
                     THEN <<MsgRespiratoryIndoors, MsgRespiratoryContact>>
                     ELSE <<>>)
          ELSE otherGroupRecommendations(riskLevel, demographicGroup))

\* variant of generateHealthRecommendations: the respiratory group is told
\* to contact the healthcare provider at the high level already
generateHealthRecommendationsContactEarly(riskLevel, demographicGroup) ==
    generalRecommendations(riskLevel)
      \o (IF demographicGroup = "respiratory" /\ riskLevel # "minimal"
          THEN <<MsgRespiratory>>
                 \o (IF riskLevel \in {"moderate", "high"}
                     THEN <<MsgRespiratoryMask>> ELSE <<>>)
                 \o (IF riskLevel \in HighLevels
                     THEN <<MsgRespiratoryIndoors, MsgRespiratoryContact>>
                     ELSE <<>>)
          ELSE otherGroupRecommendations(riskLevel, demographicGroup))

generateHealthRecommendations(riskLevel, demographicGroup) ==
    generalRecommendations(riskLevel)
      \o (IF demographicGroup = "respiratory" /\ riskLevel # "minimal"
          THEN <<MsgRespiratory>>
                 \o (IF riskLevel \in {"moderate", "high"}
                     THEN <<MsgRespiratoryMask>> ELSE <<>>)
                 \o (IF riskLevel \in {"very_high", "severe"}
                     THEN <<MsgRespiratoryIndoors, MsgRespiratoryContact>>
                     ELSE <<>>)
          ELSE otherGroupRecommendations(riskLevel, demographicGroup))

\* the numeric score of a risk level before the group's factor, 418-427
baseRiskScore(riskLevel) ==
    CASE riskLevel = "minimal" -> 10
      [] riskLevel = "low" -> 30
      [] riskLevel = "moderate" -> 50
      [] riskLevel = "high" -> 70
      [] riskLevel = "very_high" -> 85
      [] riskLevel = "severe" -> 100
      [] OTHER -> 0

\* the level of an AQI value, 402-415
baseRiskLevel(aqi) ==
    IF aqi <= 50 THEN "minimal"
    ELSE IF aqi <= 100 THEN "low"
    ELSE IF aqi <= 150 THEN "moderate"
    ELSE IF aqi <= 200 THEN "high"
    ELSE IF aqi <= 300 THEN "very_high"
    ELSE "severe"

\* variant of groupRisk: the level is taken from the AQI scaled by the
\* group's factor, as the score is
groupRiskScaledLevel(aqi, group) ==
    LET factor == riskFactors(group)
        riskLevel == baseRiskLevel((aqi * factor) \div 10)
    IN  [level |-> riskLevel,
         score |-> JsMin(100, MathRound(baseRiskScore(riskLevel) * factor, 10)),
         recommendations |-> generateHealthRecommendations(riskLevel, group)]

\* variant of groupRisk: the score is not limited to 100
groupRiskUnclamped(aqi, group) ==
    LET factor == riskFactors(group)
        riskLevel == baseRiskLevel(aqi)
    IN  [level |-> riskLevel,
         score |-> MathRound(baseRiskScore(riskLevel) * factor, 10),
         recommendations |-> generateHealthRecommendations(riskLevel, group)]

\* the body of the loop over the groups: risks[group] for one sensor's AQI
groupRisk(aqi, group) ==
    LET factor == riskFactors(group)
        riskLevel == baseRiskLevel(aqi)
    IN  [level |-> riskLevel,
         score |-> JsMin(100, MathRound(baseRiskScore(riskLevel) * factor, 10)),
         recommendations |-> generateHealthRecommendations(riskLevel, group)]

\* calculateHealthRisks over the sensors ss: the healthRisks object
calculateHealthRisks(ss) ==
    [id \in {ss[i].id : i \in 1..Len(ss)} |->
        LET sensor == ss[CHOOSE i \in 1..Len(ss) : ss[i].id = id]
        IN  [location |-> sensor.location.name,
             aqi |-> sensor.readings.aqi.value,
             aqiCategory |-> sensor.readings.aqi.category,
             risks |-> [group \in Groups |->
                           groupRisk(sensor.readings.aqi.value, group)]]]

---------------------------------------------------------------------------
(* generateForecasts, environment.js 523-576 *)

ForecastHours == 48

\* variant of forecastLoopContinues: the last hour is left out
forecastLoopContinuesExclusive(hour) == hour < ForecastHours

\* the condition of the loop over the hours, environment.js 537
forecastLoopContinues(hour) == hour <= ForecastHours

\* variant of hourVariation: the evening rush hour is 17 to 20
hourVariationLateRush(hourOfDay) ==
    IF hourOfDay >= 7 /\ hourOfDay <= 9 THEN 15
    ELSE IF hourOfDay >= 17 /\ hourOfDay <= 20 THEN 20
    ELSE IF hourOfDay >= 22 \/ hourOfDay <= 5 THEN 0 - 10
    ELSE 0

\* the time-of-day term of the variation
hourVariation(hourOfDay) ==
    IF hourOfDay >= 7 /\ hourOfDay <= 9 THEN 15
    ELSE IF hourOfDay >= 16 /\ hourOfDay <= 19 THEN 20
    ELSE IF hourOfDay >= 22 \/ hourOfDay <= 5 THEN 0 - 10
    ELSE 0

\* variant of forecastConfidence: the confidence falls over 24 hours
forecastConfidenceDay(hour) == MathRound(90 * 24 - 30 * hour, 24)

\* Math.round(90 - (hour / 48) * 30)
forecastConfidence(hour) ==
    MathRound(90 * ForecastHours - 30 * hour, ForecastHours)

\* (Math.random() - 0.5) * 15 for Math.random() = r / RandomLevels, as the
\* numerator of a fraction over 2 * RandomLevels
forecastNoise(r) == 15 * (2 * r - RandomLevels)

\* variant of forecastPointWithNoise: the hour of day is not reduced to 0..23
forecastPointAbsoluteHour(currentAQI, now, hour, noise) ==
    LET hourOfDay == now + hour
        forecastedAQI ==
            JsMax(0, MathRound(
                2 * RandomLevels * (currentAQI + hourVariation(hourOfDay)) + noise,
                2 * RandomLevels))
    IN  [timestamp |-> now + hour,
         aqi |-> forecastedAQI,
         category |-> getAQICategory(forecastedAQI),
         confidence |-> forecastConfidence(hour)]

\* one hourly entry, for the noise term noise / (2 * RandomLevels).
\* timestamp is kept as the hours since the midnight before the first run.
forecastPointWithNoise(currentAQI, now, hour, noise) ==
    LET hourOfDay == (now + hour) % 24
        forecastedAQI ==
            JsMax(0, MathRound(
                2 * RandomLevels * (currentAQI + hourVariation(hourOfDay)) + noise,
                2 * RandomLevels))
    IN  [timestamp |-> now + hour,
         aqi |-> forecastedAQI,
         category |-> getAQICategory(forecastedAQI),
         confidence |-> forecastConfidence(hour)]

\* one hourly entry: r is the Math.random() numerator of the noise term
forecastPoint(currentAQI, now, hour, r) ==
    forecastPointWithNoise(currentAQI, now, hour, forecastNoise(r))

\* generateForecasts over the sensors ss; the noise draws follow the 6 draws
\* per sensor of loadSampleSensorData
generateForecasts(ss, now) ==
    [i \in 1..Len(ss) |->
        [sensorId |-> ss[i].id,
         location |-> ss[i].location.name,
         hourly |-> [hour \in 1..ForecastHours |->
                        forecastPoint(ss[i].readings.aqi.value, now, hour,
                            Random(6 * Len(ss) + ForecastHours * (i - 1) + hour))]]]

---------------------------------------------------------------------------
(* getPersonalizedRecommendations, environment.js 643-659 *)

\* names every object inherits from Object.prototype: obj[name] is a
\* truthy value for them although obj has no such key of its own
ObjectPrototypeKeys == {"constructor", "toString"}

Null == [kind |-> "null"]

\* variant: no fallback to the general group
getPersonalizedRecommendationsNoFallback(sensorId, demographicGroup) ==
    IF sensorId \in DOMAIN healthRisks
         /\ demographicGroup \in DOMAIN healthRisks[sensorId].risks
    THEN LET healthRisk == healthRisks[sensorId]
             risk == healthRisk.risks[demographicGroup]
         IN  Returned([kind |-> "recommendations",
                       location |-> healthRisk.location,
                       aqi |-> healthRisk.aqi,
                       aqiCategory |-> healthRisk.aqiCategory,
                       riskLevel |-> risk.level,
                       riskScore |-> Num(risk.score),
                       recommendations |-> risk.recommendations])
    ELSE Returned(Null)

getPersonalizedRecommendations(sensorId, demographicGroup) ==
    IF sensorId \in DOMAIN healthRisks
    THEN LET healthRisk == healthRisks[sensorId]
             result(level, score, recommendations) ==
                 Returned([kind |-> "recommendations",
                           location |-> healthRisk.location,
                           aqi |-> healthRisk.aqi,
                           aqiCategory |-> healthRisk.aqiCategory,
                           riskLevel |-> level,
                           riskScore |-> score,
                           recommendations |-> recommendations])
         IN  IF demographicGroup \in DOMAIN healthRisk.risks
             THEN LET groupRisk_ == healthRisk.risks[demographicGroup]
                  IN  result(groupRisk_.level, Num(groupRisk_.score),
                             groupRisk_.recommendations)
             ELSE IF demographicGroup \in ObjectPrototypeKeys
             THEN \* an inherited member: it has no level, score, recommendations
                  result("undefined", Undefined, <<>>)
             ELSE LET general == healthRisk.risks["general"]
                  IN  result(general.level, Num(general.score),
                             general.recommendations)
    ELSE IF sensorId \in ObjectPrototypeKeys
    THEN \* healthRisk is an inherited member, healthRisk.risks is undefined
         Thrown("TypeError")
    ELSE Returned(Null)

---------------------------------------------------------------------------
(* The manager as a state machine *)

SensorIdInputs ==
    {SensorId(i) : i \in 1..Len(sensorLocations)} \cup {"sensor_999", "constructor"}

GroupInputs == Groups \cup {"athletes", "", "constructor"}

NoCall == [op |-> "none"]

\* no run of generateForecasts is in progress
NoForecastRun ==
    forecastRun = [pc |-> "idle", run |-> 0, now |-> 0, hour |-> 0, hourly |-> <<>>]

\* the EmergencyManager as constructed, emergency.js 8-15
EmergencyConstructed ==
    /\ emergencyManager = [incidents |-> <<>>, resources |-> <<>>,
                           responseStats |-> <<>>, initialized |-> FALSE]
    /\ emergencyCalls = 0

\* the TrafficPredictor as constructed, part_000 83-96, with no
\* continuation waiting
TrafficPredictorConstructed ==
    /\ trafficPredictor = [historicalData |-> <<>>, realTimeData |-> <<>>,
                           predictions |-> <<>>, initialized |-> FALSE]
    /\ microtasks = <<>>

\* the traffic page before DOMContentLoaded: selected is the value of the
\* time horizon selector, undefined when the page has no such element
PageLoading(selected) ==
    [pc |-> "loading", selected |-> selected, predictions |-> <<>>]

TrafficConstructed ==
    /\ TrafficPredictorConstructed
    /\ trafficModule = PageLoading(Undefined)

\* the state outside the manager at page load
\* new TransportationManager(), transportation.js 8-16
TransportConstructed ==
    transportationManager = [stops |-> <<>>, routes |-> <<>>, initialized |-> FALSE]

\* new CitizenEngagementManager(), citizen.js 8-14
CitizenConstructed ==
    /\ citizenManager = [reportedIssues |-> <<>>, communityProjects |-> <<>>,
                         notifications |-> <<>>, initialized |-> FALSE]
    /\ citizenCalls = 0

OutsideManagerInit ==
    /\ NoForecastRun
    /\ EmergencyConstructed
    /\ TrafficConstructed
    /\ TransportConstructed
    /\ CitizenConstructed

\* the manager as constructed, environment.js 8-14
Constructed ==
    /\ sensors = <<>>
    /\ pollutionSources = <<>>
    /\ healthRisks = <<>>
    /\ forecasts = <<>>
    /\ initialized = FALSE

Init ==
    /\ call = NoCall
    /\ ret = Pending
    /\ Constructed
    /\ rngSeed \in 0..(NumSeeds - 1)
    /\ clockHour \in 0..23
    /\ OutsideManagerInit

\* initialize() on a fresh manager, environment.js 19-36
Initialize ==
    /\ ~ initialized
    /\ sensors' = loadSampleSensorData
    /\ pollutionSources' = loadSamplePollutionSources
    /\ healthRisks' = calculateHealthRisks(sensors')
    /\ forecasts' = generateForecasts(sensors', clockHour)
    /\ initialized' = TRUE
    /\ call' = [op |-> "initialize"]
    /\ ret' = Returned(Null)
    /\ UNCHANGED <<env, outsideManager>>

\* initialize() on an initialized manager returns at once
InitializeAgain ==
    /\ initialized
    /\ call' = [op |-> "initialize"]
    /\ ret' = Returned(Null)
    /\ UNCHANGED <<manager, env, outsideManager>>

\* A query changes nothing of the manager, so the states reached are the
\* same whether or not queries follow one another; one is observed at a time.
GetPersonalizedRecommendations ==
    \E sensorId \in SensorIdInputs, demographicGroup \in GroupInputs :
        /\ call.op # "getPersonalizedRecommendations"
        /\ call' = [op |-> "getPersonalizedRecommendations",
                    sensorId |-> sensorId, demographicGroup |-> demographicGroup]
        /\ ret' = getPersonalizedRecommendations(sensorId, demographicGroup)
        /\ UNCHANGED <<manager, env, outsideManager>>

Next == Initialize \/ InitializeAgain \/ GetPersonalizedRecommendations

Spec == Init /\ [][Next]_vars

---------------------------------------------------------------------------
(* The pure methods, each applied once to arguments drawn at the start *)

MaxBelow == 3       \* grid steps below 0 among the concentrations tried
MaxAbove == 3       \* grid steps above the last bracket
AQISamples == 2     \* brackets sampled per pollutant in a reading set
MaxAQIValue == 520  \* AQI values 0..MaxAQIValue are categorised

\* grid step: half of the resolution of the pollutant's table
Step(p) == IF p \in {"pm25", "co"} THEN 1 ELSE 10

LastBreakpoint(p) == Breakpoints(p)[Len(Breakpoints(p))]

ConcentrationInputs(p) ==
    {Num(k * Step(p)) :
        k \in (0 - MaxBelow)..((LastBreakpoint(p).max \div Step(p)) + MaxAbove)}
      \cup {Num(Units(10000)), Num(Units(0 - 50)), Undefined}

\* a concentration per pollutant whose sub-index is easy to recognise:
\* PM2.5 9.6 -> 40, NO2 91 -> 90
ExampleConcentration(p) ==
    CASE p = "pm25" -> Units(96)
      [] p = "pm10" -> Units(200)
      [] p = "no2"  -> Units(910)
      [] p = "so2"  -> Units(100)
      [] p = "co"   -> Units(10)
      [] p = "o3"   -> Units(300)

ReadingInputs(p) ==
    {Undefined, Num(ExampleConcentration(p)), Num(0 - Step(p))}
      \cup {Num(Breakpoints(p)[i].min) : i \in 2..(1 + AQISamples)}

SubIndexCalls ==
    UNION {{[op |-> "subIndex", pollutant |-> p, concentration |-> c] :
               c \in ConcentrationInputs(p)} : p \in Pollutants}

AQICalls ==
    [op : {"calculateAQI"},
     pm25 : ReadingInputs("pm25"), pm10 : ReadingInputs("pm10"),
     no2 : ReadingInputs("no2"), so2 : ReadingInputs("so2"),
     co : ReadingInputs("co"), o3 : ReadingInputs("o3")]

CategoryCalls == [op : {"getAQICategory"}, aqi : 0..MaxAQIValue]

InitAQI ==
    /\ call \in SubIndexCalls \cup AQICalls \cup CategoryCalls
    /\ ret = Pending
    /\ Constructed
    /\ rngSeed = 0
    /\ clockHour = 0
    /\ OutsideManagerInit

\* calculatePM25AQI .. calculateO3AQI applied to the drawn concentration
CallSubIndex ==
    /\ call.op = "subIndex"
    /\ ret = Pending
    /\ ret' = Returned(SubIndex(call.pollutant, call.concentration))
    /\ UNCHANGED <<call, manager, env, outsideManager>>

\* calculateAQI then getAQICategory, as generateSensorReadings applies
\* them (environment.js 114-117, 126)
CallCalculateAQI ==
    /\ call.op = "calculateAQI"
    /\ ret = Pending
    /\ LET aqi == calculateAQI(call.pm25, call.pm10, call.no2,
                               call.so2, call.co, call.o3)
       IN  ret' = Returned([value |-> aqi, category |-> getAQICategory(aqi)])
    /\ UNCHANGED <<call, manager, env, outsideManager>>

CallGetAQICategory ==
    /\ call.op = "getAQICategory"
    /\ ret = Pending
    /\ ret' = Returned(getAQICategory(call.aqi))
    /\ UNCHANGED <<call, manager, env, outsideManager>>

NextAQI == CallSubIndex \/ CallCalculateAQI \/ CallGetAQICategory

SpecAQI == InitAQI /\ [][NextAQI]_vars

---------------------------------------------------------------------------
(* Claims about the pure methods, checked under SpecAQI *)

SubIndexDone == call.op = "subIndex" /\ ret # Pending
AQIDone == call.op = "calculateAQI" /\ ret # Pending
CategoryDone == call.op = "getAQICategory" /\ ret # Pending

InBracket(c, bp) == c.defined /\ bp.min <= c.val /\ c.val <= bp.max

\* C1: for a concentration inside a bracket of its pollutant the sub-index
\* is the interpolated value (aqiHigh - aqiLow) / (cHigh - cLow) * (c - cLow)
\* + aqiLow of that bracket rounded to the nearest integer (halves upwards):
\* it is the integer r with r - 1/2 <= value < r + 1/2.
C1_InterpolatesInBracket ==
    SubIndexDone =>
        \A i \in 1..Len(Breakpoints(call.pollutant)) :
            LET bp == Breakpoints(call.pollutant)[i]
                c == call.concentration
                den == bp.max - bp.min
                twice == 2 * (bp.maxAQI - bp.minAQI) * (c.val - bp.min)
            IN  InBracket(c, bp) =>
                    /\ ret.status = "returned"
                    /\ 2 * den * (ret.value - bp.minAQI) - den <= twice
                    /\ twice < 2 * den * (ret.value - bp.minAQI) + den

\* PM2.5 = 20.0 lies in [12.1, 35.4] and gives round(51 + 49/23.3 * 7.9) = 68
C1_Witness ==
    /\ SubIndexDone
    /\ call.pollutant = "pm25"
    /\ call.concentration = Num(Units(200))
    /\ ret = Returned(68)

\* the readings of a calculateAQI call that are present
Present == {p \in Pollutants : call[p].defined}

\* C2: the AQI of a non-empty reading set is the maximum of the sub-indices
\* of the readings present: it is one of them and none of them exceeds it
\* (so it is no average, and an absent pollutant takes no part).
C2_AQIIsMaxOfPresent ==
    (AQIDone /\ Present # {}) =>
        /\ ret.status = "returned"
        /\ \E p \in Present : ret.value.value = SubIndex(p, call[p])
        /\ \A p \in Present : SubIndex(p, call[p]) <= ret.value.value

\* only PM2.5 (sub-index 40) and NO2 (sub-index 90) given: AQI 90, moderate
C2_Witness ==
    /\ AQIDone
    /\ Present = {"pm25", "no2"}
    /\ SubIndex("pm25", call.pm25) = 40
    /\ SubIndex("no2", call.no2) = 90
    /\ ret = Returned([value |-> 90, category |-> "moderate"])

\* C3: the category of an AQI value follows the thresholds 50, 100, 150,
\* 200, 300, each boundary value belonging to the lower category.
C3_CategoryThresholds ==
    CategoryDone =>
        LET v == call.aqi
        IN  /\ ret.status = "returned"
            /\ (v <= 50) <=> (ret.value = "good")
            /\ (51 <= v /\ v <= 100) <=> (ret.value = "moderate")
            /\ (101 <= v /\ v <= 150) <=> (ret.value = "unhealthy_for_sensitive")
            /\ (151 <= v /\ v <= 200) <=> (ret.value = "unhealthy")
            /\ (201 <= v /\ v <= 300) <=> (ret.value = "very_unhealthy")
            /\ (v > 300) <=> (ret.value = "hazardous")

C3_Witness ==
    /\ CategoryDone
    /\ call.aqi = 300
    /\ ret = Returned("very_unhealthy")

\* C4 (as claimed): every concentration >= 0 lies in exactly one bracket of
\* its pollutant or above the last one.
C4_NoGapBetweenBrackets ==
    (SubIndexDone /\ JsGE(call.concentration, 0)) =>
        \/ Cardinality({i \in 1..Len(Breakpoints(call.pollutant)) :
              InBracket(call.concentration, Breakpoints(call.pollutant)[i])}) = 1
        \/ call.concentration.val > LastBreakpoint(call.pollutant).max

InvalidConcentration == ~ call.concentration.defined \/ call.concentration.val < 0

\* C5 (as claimed): a negative or undefined concentration fails with
\* InvalidInput.
C5_InvalidInputFails ==
    (SubIndexDone /\ InvalidConcentration) =>
        (ret.status = "thrown" /\ ret.value = "InvalidInput")

\* C5 (amended): a negative or undefined concentration raises no error; the
\* sub-index returned is 0.
C5_InvalidInputReturnsZero ==
    (SubIndexDone /\ InvalidConcentration) => ret = Returned(0)

C5_Witness ==
    /\ SubIndexDone
    /\ call.pollutant = "pm25"
    /\ call.concentration = Num(Units(0 - 50))
    /\ ret = Returned(0)

\* C6 (as claimed): calculateAQI with no reading given fails with
\* InsufficientData.
C6_EmptyFails ==
    (AQIDone /\ Present = {}) =>
        (ret.status = "thrown" /\ ret.value = "InsufficientData")

\* C6 (amended): calculateAQI with no reading given raises no error; it
\* returns AQI 0, whose category is good.
C6_EmptyReturnsZero ==
    (AQIDone /\ Present = {}) =>
        ret = Returned([value |-> 0, category |-> "good"])

C6_Witness ==
    /\ AQIDone
    /\ Present = {}
    /\ ret.status = "returned"
    /\ ret.value.value = 0

\* C8: above the last bracket the sub-index is that bracket's aqiHigh, 500;
\* every sub-index and every AQI lies in 0..500.
C8_Saturates ==
    /\ SubIndexDone =>
          /\ ret.status = "returned"
          /\ ret.value \in 0..500
          /\ JsGT(call.concentration, LastBreakpoint(call.pollutant).max) =>
                 /\ ret.value = LastBreakpoint(call.pollutant).maxAQI
                 /\ ret.value = 500
    /\ AQIDone => (ret.status = "returned" /\ ret.value.value \in 0..500)

\* PM2.5 = 1000 gives 500
C8_Witness ==
    /\ SubIndexDone
    /\ call.pollutant = "pm25"
    /\ call.concentration = Num(Units(10000))
    /\ ret = Returned(500)

\* C9: at a bracket's concentrationHigh the sub-index is its aqiHigh, and
\* at the next bracket's concentrationLow it is the next bracket's aqiLow.
C9_BoundaryValues ==
    SubIndexDone =>
        \A i \in 1..(Len(Breakpoints(call.pollutant)) - 1) :
            LET bp == Breakpoints(call.pollutant)[i]
                next == Breakpoints(call.pollutant)[i + 1]
            IN  /\ call.concentration = Num(bp.max) => ret = Returned(bp.maxAQI)
                /\ call.concentration = Num(next.min) => ret = Returned(next.minAQI)

\* PM2.5 = 35.4, the high end of [12.1, 35.4], gives 100
C9_Witness ==
    /\ SubIndexDone
    /\ call.pollutant = "pm25"
    /\ call.concentration = Num(Units(354))
    /\ ret = Returned(100)

---------------------------------------------------------------------------
(* Claims about the manager, checked under Spec *)

QueryDone == call.op = "getPersonalizedRecommendations"

UnknownGroupQuery == QueryDone /\ call.demographicGroup \notin Groups

\* C7 (as claimed): a request for an unrecognized group (of a sensor that
\* has health risks) fails with an error; no result is produced.
C7_UnknownGroupFails ==
    (UnknownGroupQuery /\ call.sensorId \in DOMAIN healthRisks) =>
        ret.status = "thrown"

\* C7 (amended): a request for an unrecognized group of a known sensor
\* raises no error and produces a result: it carries the general group's
\* level, score and recommendations, unless the name is one every object
\* inherits (constructor, toString), and then its risk fields are undefined.
C7_UnknownGroupGetsGeneral ==
    (UnknownGroupQuery /\ call.sensorId \in DOMAIN healthRisks) =>
        LET general == healthRisks[call.sensorId].risks["general"]
        IN  /\ ret.status = "returned"
            /\ ret.value.kind = "recommendations"
            /\ ret.value.aqi = healthRisks[call.sensorId].aqi
            /\ IF call.demographicGroup \in ObjectPrototypeKeys
               THEN /\ ret.value.riskLevel = "undefined"
                    /\ ret.value.riskScore = Undefined
               ELSE /\ ret.value.riskLevel = general.level
                    /\ ret.value.riskScore = Num(general.score)
                    /\ ret.value.recommendations = general.recommendations

C7_Witness ==
    /\ UnknownGroupQuery
    /\ call.sensorId = "sensor_007"
    /\ call.demographicGroup = "athletes"
    /\ ret.status = "returned"
    /\ ret.value.kind = "recommendations"
    /\ ret.value.riskLevel = "moderate"
    /\ ret.value.riskScore = Num(50)
    /\ healthRisks["sensor_007"].risks["respiratory"].score = 100

\* the level that goes with each AQI category
CategoryLevel ==
    { <<"good", "minimal">>, <<"moderate", "low">>,
      <<"unhealthy_for_sensitive", "moderate">>, <<"unhealthy", "high">>,
      <<"very_unhealthy", "very_high">>, <<"hazardous", "severe">> }

LevelByThresholds(aqi, level) ==
    \/ aqi <= 50 /\ level = "minimal"
    \/ 50 < aqi /\ aqi <= 100 /\ level = "low"
    \/ 100 < aqi /\ aqi <= 150 /\ level = "moderate"
    \/ 150 < aqi /\ aqi <= 200 /\ level = "high"
    \/ 200 < aqi /\ aqi <= 300 /\ level = "very_high"
    \/ 300 < aqi /\ level = "severe"

\* C10: for every sensor and every group the stored and the reported risk
\* level is the level of the sensor's AQI by the thresholds 50, 100, 150,
\* 200, 300: the same for the five groups, and the one that goes with the
\* stored AQI category.
C10_RiskLevelFromAQIAlone ==
    /\ \A id \in DOMAIN healthRisks : \A group \in Groups :
          LET h == healthRisks[id]
          IN  /\ LevelByThresholds(h.aqi, h.risks[group].level)
              /\ h.risks[group].level = h.risks["general"].level
              /\ <<h.aqiCategory, h.risks[group].level>> \in CategoryLevel
    /\ (QueryDone /\ call.sensorId \in DOMAIN healthRisks
           /\ call.demographicGroup \in Groups) =>
          /\ ret.status = "returned"
          /\ LevelByThresholds(ret.value.aqi, ret.value.riskLevel)
          /\ <<ret.value.aqiCategory, ret.value.riskLevel>> \in CategoryLevel

\* a sensor in category unhealthy_for_sensitive: the respiratory group is
\* reported level moderate with score 100, the general group's score is 50
C10_Witness ==
    /\ QueryDone
    /\ call.sensorId \in DOMAIN healthRisks
    /\ call.demographicGroup = "respiratory"
    /\ ret.status = "returned"
    /\ ret.value.aqiCategory = "unhealthy_for_sensitive"
    /\ ret.value.riskLevel = "moderate"
    /\ ret.value.riskScore = Num(100)
    /\ healthRisks[call.sensorId].risks["general"].score = 50

---------------------------------------------------------------------------
(* The health risks of one sensor whose PM2.5 reading is drawn at the start
   and whose other readings are 0, so that every AQI value from 0 to 500
   and with it every risk level occurs *)

MaxRiskPM25 == 5010   \* the largest PM2.5 reading drawn, in tenths of ug/m3

RiskCalls == [op : {"healthRisks"}, pm25 : {Units(t) : t \in 0..MaxRiskPM25}]

InitRisk ==
    /\ call \in RiskCalls
    /\ ret = Pending
    /\ Constructed
    /\ rngSeed = 0
    /\ clockHour = 0
    /\ OutsideManagerInit

\* the sensor is recorded with its readings, as loadSampleSensorData
\* pushes it (environment.js 72-84)
RecordSensor ==
    /\ call.op \in {"healthRisks", "generateForecasts"}
    /\ sensors = <<>>
    /\ sensors' = << [id |-> SensorId(1),
                      location |-> [name |-> sensorLocations[1]],
                      type |-> "air_quality",
                      readings |-> sensorReadings(call.pm25, 0, 0, 0, 0, 0)] >>
    /\ UNCHANGED <<call, ret, pollutionSources, healthRisks, forecasts,
                   initialized, env, outsideManager>>

\* calculateHealthRisks() over the recorded sensor
CalculateHealthRisks ==
    /\ call.op = "healthRisks"
    /\ sensors # <<>>
    /\ ret = Pending
    /\ healthRisks' = calculateHealthRisks(sensors)
    /\ ret' = Returned(Null)
    /\ UNCHANGED <<call, sensors, pollutionSources, forecasts, initialized,
                   env, outsideManager>>

NextRisk == RecordSensor \/ CalculateHealthRisks

SpecRisk == InitRisk /\ [][NextRisk]_vars

---------------------------------------------------------------------------
(* Claims about the risk scores and recommendations, checked under SpecRisk *)

RiskDone == call.op = "healthRisks" /\ ret # Pending

\* the risk entry of a group for the recorded sensor
RiskOf(group) == healthRisks[SensorId(1)].risks[group]

\* the score of a level and the factor of a group (in tenths) as the
\* property states them
StatedBaseScore ==
    [minimal |-> 10, low |-> 30, moderate |-> 50, high |-> 70,
     very_high |-> 85, severe |-> 100]

StatedFactor ==
    [general |-> 10, elderly |-> 15, children |-> 13, respiratory |-> 20,
     cardiovascular |-> 18]

\* C11: the risk score of every group at every level is
\* min(100, round(base(level) * factor(group))) with base 10, 30, 50, 70,
\* 85, 100 for minimal .. severe and factor 1.0, 1.5, 1.3, 2.0, 1.8 for
\* general, elderly, children, respiratory, cardiovascular: it is an
\* integer in 0..100, it is 100 when the product rounds to 100 or more,
\* and otherwise it is the integer nearest to the product.
C11_ScoreIsClampedProduct ==
    RiskDone =>
        \A group \in Groups :
            LET r == RiskOf(group)
                product == StatedBaseScore[r.level] * StatedFactor[group]
            IN  /\ r.score \in 0..100
                /\ IF product + 5 >= 1000
                   THEN r.score = 100
                   ELSE 10 * r.score - 5 <= product /\ product < 10 * r.score + 5

\* at level high children score 70 * 1.3 = 91 and the elderly, whose
\* product is 105, score 100
C11_Witness ==
    /\ RiskDone
    /\ RiskOf("general").level = "high"
    /\ RiskOf("children").score = 91
    /\ RiskOf("elderly").score = 100

\* the groups from the least to the most sensitive
GroupOrder == << "general", "children", "elderly", "cardiovascular", "respiratory" >>

\* C12: at every risk level the scores grow along general, children,
\* elderly, cardiovascular, respiratory: none is below the one before it,
\* and two neighbours are equal only when both scores are 100.
C12_ScoresOrderedByGroup ==
    RiskDone =>
        \A i \in 1..(Len(GroupOrder) - 1) :
            LET lower == RiskOf(GroupOrder[i]).score
                upper == RiskOf(GroupOrder[i + 1]).score
            IN  /\ lower <= upper
                /\ lower = upper => (lower = 100 /\ upper = 100)

\* at level high the scores are 70 < 91 < 100 = 100 = 100
C12_Witness ==
    /\ RiskDone
    /\ RiskOf("general").score = 70
    /\ RiskOf("children").score = 91
    /\ RiskOf("elderly").score = 100
    /\ RiskOf("cardiovascular").score = 100
    /\ RiskOf("respiratory").score = 100

\* the messages of a recommendation list
Messages(recommendations) ==
    {recommendations[i] : i \in 1..Len(recommendations)}

\* C13: a sensor whose only contributing reading is PM2.5 = 35.5 has AQI
\* 101 in the category unhealthy for sensitive groups, and the
\* recommendations stored for the respiratory group contain the general
\* message on sensitive groups and the respiratory mask message.
C13_PM25BoundaryRecommendations ==
    (call.op = "healthRisks" /\ call.pm25 = Units(355)) =>
        /\ sensors # <<>> =>
              sensors[1].readings.aqi =
                  [value |-> 101, category |-> "unhealthy_for_sensitive"]
        /\ RiskDone =>
              /\ healthRisks[SensorId(1)].aqi = 101
              /\ healthRisks[SensorId(1)].aqiCategory = "unhealthy_for_sensitive"
              /\ MsgModerate1 \in Messages(RiskOf("respiratory").recommendations)
              /\ MsgRespiratoryMask \in Messages(RiskOf("respiratory").recommendations)

C13_Witness ==
    /\ RiskDone
    /\ call.pm25 = Units(355)
    /\ sensors[1].readings.pm25.value = Units(355)
    /\ RiskOf("respiratory").level = "moderate"
    /\ Len(RiskOf("respiratory").recommendations) = 4

\* at level minimal every group is given the general message alone
NothingAddedAtMinimal ==
    RiskOf("general").level = "minimal" =>
        \A group \in Groups :
            RiskOf(group).recommendations = RiskOf("general").recommendations

\* C14 as stated: at each of the levels high, very_high and severe the
\* respiratory group is given both the mask message and the
\* contact-healthcare-provider message, and at minimal no group is given a
\* message of its own.
C14_RespiratoryMaskAndContact ==
    RiskDone =>
        /\ RiskOf("respiratory").level \in HighLevels =>
              /\ MsgRespiratoryMask \in Messages(RiskOf("respiratory").recommendations)
              /\ MsgRespiratoryContact \in Messages(RiskOf("respiratory").recommendations)
        /\ NothingAddedAtMinimal

\* C14: the respiratory group is given the mask message at the levels
\* moderate and high and at no other, and the contact-healthcare-provider
\* message at the levels very_high and severe and at no other; at minimal
\* no group is given a message of its own.
C14_RespiratoryMaskOrContact ==
    RiskDone =>
        LET r == RiskOf("respiratory")
        IN  /\ MsgRespiratoryMask \in Messages(r.recommendations)
                 <=> r.level \in {"moderate", "high"}
            /\ MsgRespiratoryContact \in Messages(r.recommendations)
                 <=> r.level \in {"very_high", "severe"}
            /\ NothingAddedAtMinimal

\* at level high the respiratory group has the mask message and not the
\* contact message
C14_Witness ==
    /\ RiskDone
    /\ RiskOf("respiratory").level = "high"
    /\ MsgRespiratoryMask \in Messages(RiskOf("respiratory").recommendations)
    /\ MsgRespiratoryContact \notin Messages(RiskOf("respiratory").recommendations)

---------------------------------------------------------------------------
(* generateForecasts() hour by hour, run more than once on a manager that
   holds one sensor.  The sensor's AQI, the hour at which the first run
   starts, the argument the caller passes and whether Math.random is
   replaced by the constant 0.5 (so that the noise term is 0) are drawn at
   the start.  The hour read by new Date() does not change during a run. *)

ForecastRuns == 2     \* runs of generateForecasts
MaxGap == 1           \* hours that may pass between two runs, or a day
StartStride == 6      \* the first run starts at a multiple of it
ForecastSeeds == 3    \* generator states tried when Math.random is kept

\* PM2.5 readings in tenths: AQI 0, 100, 200 and 300
ForecastPM25 == {0, 354, 1504, 2504}

\* generateForecasts has no parameter; an argument passed to it is ignored
HorizonInputs == {Undefined, Num(24)}

ForecastCalls ==
    [op : {"generateForecasts"}, pm25 : {Units(t) : t \in ForecastPM25},
     hoursAhead : HorizonInputs, stubbed : BOOLEAN]

InitForecast ==
    /\ call \in ForecastCalls
    /\ ret = Pending
    /\ Constructed
    /\ rngSeed \in 0..(ForecastSeeds - 1)
    /\ call.stubbed => rngSeed = 0
    /\ clockHour \in {h \in 0..23 : h % StartStride = 0}
    /\ OutsideManagerInit

\* generateForecasts() is entered: the forEach reaches the sensor and the
\* loop over the hours starts at 1
StartForecasts ==
    /\ call.op = "generateForecasts"
    /\ sensors # <<>>
    /\ forecastRun.pc = "idle"
    /\ forecastRun.run < ForecastRuns
    /\ forecastRun' = [pc |-> "loop", run |-> forecastRun.run + 1,
                       now |-> clockHour, hour |-> 1, hourly |-> <<>>]
    /\ ret' = Pending
    /\ UNCHANGED <<call, manager, env, outsideEnvironment>>

\* one iteration of the loop: the entry of this hour is pushed
ForecastHour ==
    /\ forecastRun.pc = "loop"
    /\ forecastLoopContinues(forecastRun.hour)
    /\ LET k == ForecastHours * (forecastRun.run - 1) + forecastRun.hour
           noise == IF call.stubbed THEN 0 ELSE forecastNoise(Random(k))
           point == forecastPointWithNoise(sensors[1].readings.aqi.value,
                                           forecastRun.now, forecastRun.hour, noise)
       IN  forecastRun' = [forecastRun EXCEPT !.hourly = Append(@, point),
                                              !.hour = @ + 1]
    /\ UNCHANGED <<call, ret, manager, env, outsideEnvironment>>

\* the loop is left: the forecast is pushed and generateForecasts returns
FinishForecast ==
    /\ forecastRun.pc = "loop"
    /\ ~ forecastLoopContinues(forecastRun.hour)
    /\ forecasts' = Append(forecasts, [sensorId |-> sensors[1].id,
                                       location |-> sensors[1].location.name,
                                       hourly |-> forecastRun.hourly])
    /\ forecastRun' = [forecastRun EXCEPT !.pc = "idle"]
    /\ ret' = Returned(Null)
    /\ UNCHANGED <<call, sensors, pollutionSources, healthRisks, initialized,
                   env, outsideEnvironment>>

\* time passes between two runs
TimePasses ==
    /\ forecastRun.pc = "idle"
    /\ forecastRun.run >= 1
    /\ clockHour = forecastRun.now
    /\ \E gap \in (1..MaxGap) \cup {24} : clockHour' = clockHour + gap
    /\ UNCHANGED <<call, ret, manager, rngSeed, outsideManager>>

NextForecast ==
    RecordSensor \/ StartForecasts \/ ForecastHour \/ FinishForecast \/ TimePasses

\* the loop is synchronous code: once entered it runs to its end
SpecForecast ==
    /\ InitForecast
    /\ [][NextForecast]_vars
    /\ WF_vars(ForecastHour)
    /\ WF_vars(FinishForecast)

---------------------------------------------------------------------------
(* Claims about the forecasts, checked under SpecForecast *)

\* the forecasts of the runs that have returned
FinishedRuns == 1..Len(forecasts)

\* C15: the confidence of the entry for hour h of the 48 is
\* round(90 - (h / 48) * 30), the integer c with c - 1/2 <= value < c + 1/2:
\* it is 89 at h = 1 and 60 at h = 48, and it never grows with h.
C15_ConfidenceDecay ==
    \A n \in FinishedRuns :
        LET hourly == forecasts[n].hourly
        IN  \A h \in 1..Len(hourly) :
                LET c == hourly[h].confidence
                    twice == 2 * (90 * ForecastHours - 30 * h)
                IN  /\ (2 * c - 1) * ForecastHours <= twice
                    /\ twice < (2 * c + 1) * ForecastHours
                    /\ h = 1 => c = 89
                    /\ h = ForecastHours => c = 60
                    /\ h > 1 => c <= hourly[h - 1].confidence

C15_Witness ==
    /\ Len(forecasts) >= 1
    /\ forecasts[1].hourly[1].confidence = 89
    /\ forecasts[1].hourly[24].confidence = 75
    /\ forecasts[1].hourly[48].confidence = 60

\* run n has returned with one entry per offset 1..48, in this order
RunComplete(n) ==
    /\ forecastRun.pc = "idle"
    /\ Len(forecasts) = n
    /\ Len(forecasts[n].hourly) = ForecastHours
    /\ \A h \in 1..ForecastHours :
          forecasts[n].hourly[h].timestamp = forecastRun.now + h

\* C16 as stated: the forecast has as many entries as the horizon the
\* caller supplies.
C16_PointsForSuppliedHorizon ==
    \A n \in FinishedRuns :
        call.hoursAhead.defined =>
            Len(forecasts[n].hourly) = call.hoursAhead.val

\* C16: every run of generateForecasts that has entered its loop returns,
\* and it then holds exactly 48 entries for the sensor, one per offset
\* h = 1..48 in increasing order, whatever argument the caller passed.
C16_TerminatesWith48Points ==
    \A n \in 1..ForecastRuns :
        (forecastRun.pc = "loop" /\ forecastRun.run = n) ~> RunComplete(n)

\* a caller passed 24 and the run has returned with 48 entries
C16_Witness ==
    /\ call.hoursAhead = Num(24)
    /\ RunComplete(1)
    /\ forecasts[1].hourly[48].timestamp = forecastRun.now + 48

MaxAdjustment == 30   \* the time-of-day adjustments considered

\* the noise term of entry h of run n, over 2 * RandomLevels
NoiseOf(n, h) ==
    IF call.stubbed THEN 0
    ELSE 15 * (2 * Random(ForecastHours * (n - 1) + h) - RandomLevels)

\* aqi = max(0, round(twice / (2 * RandomLevels)))
IsClampedRound(aqi, twice) ==
    \/ aqi = 0 /\ twice < RandomLevels
    \/ /\ aqi > 0
       /\ RandomLevels * (2 * aqi - 1) <= twice
       /\ twice < RandomLevels * (2 * aqi + 1)

\* C17: the AQI of every forecast entry is max(0, round(current AQI +
\* adjustment + noise)) for an adjustment that is positive when the entry's
\* hour of day is in 7..9 or 16..19, negative when it is 22 or later or 5
\* or earlier, and 0 otherwise; the entry's category is the category of
\* that AQI by the thresholds 50, 100, 150, 200, 300.
C17_PointFromAdjustmentAndNoise ==
    \A n \in FinishedRuns :
        \A h \in 1..Len(forecasts[n].hourly) :
            LET point == forecasts[n].hourly[h]
                hourOfDay == point.timestamp % 24
                current == sensors[1].readings.aqi.value
            IN  /\ \E adjustment \in (0 - MaxAdjustment)..MaxAdjustment :
                      /\ IF hourOfDay \in (7..9) \cup (16..19) THEN adjustment > 0
                         ELSE IF hourOfDay >= 22 \/ hourOfDay <= 5 THEN adjustment < 0
                         ELSE adjustment = 0
                      /\ IsClampedRound(point.aqi,
                             2 * RandomLevels * (current + adjustment) + NoiseOf(n, h))
                /\ \E level \in DOMAIN StatedBaseScore :
                      /\ LevelByThresholds(point.aqi, level)
                      /\ <<point.category, level>> \in CategoryLevel

\* a sensor at AQI 100 without noise: 115 and 120 in the rush hours, 90 at
\* night and 100 in between, in the categories that go with them
C17_Witness ==
    /\ Len(forecasts) >= 1
    /\ call.stubbed
    /\ sensors[1].readings.aqi.value = 100
    /\ \A v \in {90, 100, 115, 120} :
          \E h \in 1..ForecastHours : forecasts[1].hourly[h].aqi = v
    /\ \E h \in 1..ForecastHours :
          /\ forecasts[1].hourly[h].aqi = 90
          /\ forecasts[1].hourly[h].category = "moderate"
    /\ \E h \in 1..ForecastHours :
          /\ forecasts[1].hourly[h].aqi = 115
          /\ forecasts[1].hourly[h].category = "unhealthy_for_sensitive"

\* what a run reports: the (aqi, category, confidence) of its entries
Reported(n) ==
    [h \in 1..Len(forecasts[n].hourly) |->
        << forecasts[n].hourly[h].aqi, forecasts[n].hourly[h].category,
           forecasts[n].hourly[h].confidence >>]

\* the hour of day at which run n started
StartHour(n) == (forecasts[n].hourly[1].timestamp - 1) % 24

---------------------------------------------------------------------------
(* The Emergency module, src/js/emergency.js.  Of an incident the id,
   type, severity, status, age, assigned resources, updates and estimated
   resolution time are kept, of a resource the id, type, status and
   assigned incident; coordinates, names and the timestamps of updates are
   left out, and with them the response and resolution times of the
   statistics.  An absent assignedIncidentId is "undefined", a cleared one
   "null".  The evacuation routes and risk zones, which the methods below
   do not read, are left out.  The sample data takes its Math.random()
   values from the seeded sequence, one position per value kept. *)

Digits == << "0", "1", "2", "3", "4", "5", "6", "7", "8", "9" >>

\* n.toString().padStart(3, '0') for n < 1000
PadStart3(n) ==
    Digits[((n \div 100) % 10) + 1]
      \o Digits[((n \div 10) % 10) + 1] \o Digits[(n % 10) + 1]

incidentTypes == << "fire", "medical", "police", "traffic", "weather", "infrastructure" >>
severityLevels == << "low", "medium", "high", "critical" >>
statusOptions == << "reported", "responding", "in_progress", "resolved" >>
resourceTypes ==
    << "fire_truck", "ambulance", "police_car", "hazmat_unit", "utility_vehicle" >>

\* Math.floor(Math.random() * n) for Math.random() = r / RandomLevels
RandomFloor(r, n) == (r * n) \div RandomLevels

MsgIncidentReported == "Incident reported to emergency services."
MsgIncidentResponding == "Emergency units dispatched to the scene."
MsgIncidentInProgress == "Emergency units on scene and addressing the incident."
MsgIncidentResolved == "Incident has been resolved. Units clearing the scene."

generateIncidentUpdates(status) ==
    << [status |-> "reported", message |-> MsgIncidentReported] >>
      \o (IF status # "reported"
          THEN << [status |-> "responding", message |-> MsgIncidentResponding] >>
          ELSE <<>>)
      \o (IF status = "in_progress" \/ status = "resolved"
          THEN << [status |-> "in_progress", message |-> MsgIncidentInProgress] >>
          ELSE <<>>)
      \o (IF status = "resolved"
          THEN << [status |-> "resolved", message |-> MsgIncidentResolved] >>
          ELSE <<>>)

\* generateEstimatedResolutionTime, as the minutes from now
generateEstimatedResolutionTime(severity, r) ==
    CASE severity = "low" -> 30 + RandomFloor(r, 30)
      [] severity = "medium" -> 60 + RandomFloor(r, 60)
      [] severity = "high" -> 120 + RandomFloor(r, 120)
      [] severity = "critical" -> 240 + RandomFloor(r, 240)
      [] OTHER -> 60 + RandomFloor(r, 60)

\* subtypes[type] || ['general'], emergency.js 104-113
incidentSubtypes(type) ==
    CASE type = "fire" ->
           << "building_fire", "vehicle_fire", "wildfire", "hazmat", "gas_leak" >>
      [] type = "medical" ->
           << "cardiac_arrest", "trauma", "respiratory", "stroke", "overdose" >>
      [] type = "police" ->
           << "theft", "assault", "vandalism", "domestic_dispute",
              "suspicious_activity" >>
      [] type = "traffic" ->
           << "collision", "road_closure", "traffic_signal_failure", "congestion",
              "roadwork" >>
      [] type = "weather" ->
           << "flooding", "storm_damage", "power_outage", "fallen_tree",
              "ice_hazard" >>
      [] type = "infrastructure" ->
           << "water_main_break", "power_line_down", "structural_damage",
              "sinkhole", "gas_leak" >>
      [] OTHER -> << "general" >>

\* getIncidentSubtype(type) for Math.random() = r / RandomLevels
getIncidentSubtype(type, r) ==
    incidentSubtypes(type)[RandomFloor(r, Len(incidentSubtypes(type))) + 1]

\* the incident object of loadSampleIncidents for index i - 1; age is how
\* far back within the last 24 hours its timestamp lies
sampleIncident(i) ==
    LET k == 1 + 6 * (i - 1)
        type == incidentTypes[RandomFloor(Random(k + 1), Len(incidentTypes)) + 1]
        severity == severityLevels[RandomFloor(Random(k + 2), Len(severityLevels)) + 1]
        status == statusOptions[RandomFloor(Random(k + 3), Len(statusOptions)) + 1]
    IN  [id |-> "incident_" \o PadStart3(i),
         type |-> type,
         subtype |-> getIncidentSubtype(type, Random(k + 5)),
         severity |-> severity,
         status |-> status,
         age |-> Random(k + 4),
         assignedResources |-> <<>>,
         updates |-> generateIncidentUpdates(status),
         estimatedResolutionTime |->
             IF status = "resolved" THEN Null
             ELSE Num(generateEstimatedResolutionTime(severity, Random(k + 6)))]

\* loadSampleIncidents: 10 to 15 incidents, sorted newest first (the sort
\* is stable)
loadSampleIncidents ==
    LET numIncidents == 10 + RandomFloor(Random(1), 6)
        pushed == [i \in 1..numIncidents |-> sampleIncident(i)]
        position(i) ==
            1 + Cardinality({j \in 1..numIncidents :
                                \/ pushed[j].age < pushed[i].age
                                \/ pushed[j].age = pushed[i].age /\ j < i})
    IN  [p \in 1..numIncidents |->
            pushed[CHOOSE i \in 1..numIncidents : position(i) = p]]

\* the resource object of loadSampleResources for index i - 1, with the
\* incident it is assigned to when it is busy
sampleResource(incidents, i) ==
    LET k == 92 + 3 * (i - 1)
        resourceType == resourceTypes[RandomFloor(Random(k + 1), Len(resourceTypes)) + 1]
        status == IF 10 * Random(k + 2) < 7 * RandomLevels THEN "available" ELSE "busy"
        IsActive(incident) == incident.status # "resolved"
        activeIncidents == SelectSeq(incidents, IsActive)
    IN  [id |-> resourceType \o "_" \o PadStart3(i),
         type |-> resourceType,
         status |-> status,
         assignedIncidentId |->
             IF status = "busy" /\ Len(incidents) > 0 /\ Len(activeIncidents) > 0
             THEN activeIncidents[RandomFloor(Random(k + 3), Len(activeIncidents)) + 1].id
             ELSE "undefined"]

\* the ids of the resources assigned to an incident, in their order
IdsAssignedTo(resources, incidentId) ==
    LET IsAssigned(resource) == resource.assignedIncidentId = incidentId
        assigned == SelectSeq(resources, IsAssigned)
    IN  [j \in 1..Len(assigned) |-> assigned[j].id]

\* loadSampleResources: 20 to 30 resources; the incidents with the ids of
\* the busy resources pushed to their assignedResources
loadSampleResources(incidents) ==
    LET numResources == 20 + RandomFloor(Random(92), 11)
        resources == [i \in 1..numResources |-> sampleResource(incidents, i)]
    IN  [incidents |->
             [p \in 1..Len(incidents) |->
                 [incidents[p] EXCEPT
                     !.assignedResources = IdsAssignedTo(resources, incidents[p].id)]],
         resources |-> resources]

\* filter(...).length: the number of entries of a sequence of truth values
\* that hold, tests[i] being the filter's test on the i-th element
Count(tests) == Cardinality({i \in 1..Len(tests) : tests[i]})

\* generateResponseStats: the counts and the utilization, the latter as the
\* fraction num / den of busyResources / totalResources * 100
generateResponseStats(incidents, resources) ==
    LET utilization(type) ==
            LET totalResources ==
                    Count([i \in 1..Len(resources) |-> resources[i].type = type])
                busyResources ==
                    Count([i \in 1..Len(resources) |->
                              resources[i].type = type /\ resources[i].status = "busy"])
            IN  IF totalResources > 0
                THEN [num |-> 100 * busyResources, den |-> totalResources]
                ELSE [num |-> 0, den |-> 1]
    IN  [incidentCounts |->
             [total |-> Len(incidents),
              byType |->
                  [type \in {incidents[i].type : i \in 1..Len(incidents)} |->
                      Count([i \in 1..Len(incidents) |-> incidents[i].type = type])],
              bySeverity |->
                  [severity \in {severityLevels[i] : i \in 1..Len(severityLevels)} |->
                      Count([i \in 1..Len(incidents) |->
                                incidents[i].severity = severity])],
              active |->
                  Count([i \in 1..Len(incidents) |-> incidents[i].status # "resolved"]),
              resolved |->
                  Count([i \in 1..Len(incidents) |-> incidents[i].status = "resolved"])],
         resourceUtilization |->
             [type \in {resourceTypes[i] : i \in 1..Len(resourceTypes)} |->
                 utilization(type)]]

\* the position of the first incident with this id, 0 when there is none
getIncidentById(incidents, incidentId) ==
    IF \E i \in 1..Len(incidents) : incidents[i].id = incidentId
    THEN CHOOSE i \in 1..Len(incidents) :
             /\ incidents[i].id = incidentId
             /\ \A j \in 1..(i - 1) : incidents[j].id # incidentId
    ELSE 0

\* the position of the first resource with this id, 0 when there is none
getResourceById(resources, resourceId) ==
    IF \E i \in 1..Len(resources) : resources[i].id = resourceId
    THEN CHOOSE i \in 1..Len(resources) :
             /\ resources[i].id = resourceId
             /\ \A j \in 1..(i - 1) : resources[j].id # resourceId
    ELSE 0

\* [...new Set(ids)]: the first occurrence of every id, in order
RECURSIVE SetOrder(_)
SetOrder(ids) ==
    IF ids = <<>> THEN <<>>
    ELSE LET front == SetOrder(SubSeq(ids, 1, Len(ids) - 1))
             last == ids[Len(ids)]
         IN  IF \E i \in 1..Len(front) : front[i] = last
             THEN front ELSE Append(front, last)

\* ids.join(', ')
RECURSIVE Join(_)
Join(ids) ==
    IF ids = <<>> THEN ""
    ELSE IF Len(ids) = 1 THEN ids[1]
    ELSE ids[1] \o ", " \o Join(Tail(ids))

\* the ids of a list as a set
Ids(resourceIds) == {resourceIds[i] : i \in 1..Len(resourceIds)}

\* assignResourcesToIncident on the manager m for a known incident: the
\* manager afterwards
assignResourcesToIncident(m, incidentId, resourceIds) ==
    LET at == getIncidentById(m.incidents, incidentId)
        incident == m.incidents[at]
        incidents ==
            [m.incidents EXCEPT
                ![at].assignedResources = SetOrder(incident.assignedResources \o resourceIds),
                ![at].updates =
                    Append(@, [status |-> incident.status,
                               message |-> "Resources assigned to incident: "
                                             \o Join(resourceIds) \o "."])]
        resources ==
            [i \in 1..Len(m.resources) |->
                IF \E id \in Ids(resourceIds) : getResourceById(m.resources, id) = i
                THEN [m.resources[i] EXCEPT !.status = "busy",
                                            !.assignedIncidentId = incidentId]
                ELSE m.resources[i]]
    IN  [m EXCEPT !.incidents = incidents,
                  !.resources = resources,
                  !.responseStats = generateResponseStats(incidents, resources)]

\* releaseResourcesFromIncident on the manager m for a known incident
releaseResourcesFromIncident(m, incidentId, resourceIds) ==
    LET at == getIncidentById(m.incidents, incidentId)
        incident == m.incidents[at]
        IsKept(id) == id \notin Ids(resourceIds)
        incidents ==
            [m.incidents EXCEPT
                ![at].assignedResources = SelectSeq(incident.assignedResources, IsKept),
                ![at].updates =
                    Append(@, [status |-> incident.status,
                               message |-> "Resources released from incident: "
                                             \o Join(resourceIds) \o "."])]
        resources ==
            [i \in 1..Len(m.resources) |->
                IF /\ \E id \in Ids(resourceIds) : getResourceById(m.resources, id) = i
                   /\ m.resources[i].assignedIncidentId = incidentId
                THEN [m.resources[i] EXCEPT !.status = "available",
                                            !.assignedIncidentId = "null"]
                ELSE m.resources[i]]
    IN  [m EXCEPT !.incidents = incidents,
                  !.resources = resources,
                  !.responseStats = generateResponseStats(incidents, resources)]

---------------------------------------------------------------------------
(* The emergency manager as a state machine: initialize(), then calls of
   assignResourcesToIncident and releaseResourcesFromIncident *)

MaxEmergencyCalls == 3   \* calls made after initialize()
EmergencySeeds == 2      \* generator states tried, the last of NumSeeds

\* the ids a caller passes: the first two incidents and one that is unknown
IncidentIdInputs ==
    {emergencyManager.incidents[1].id, emergencyManager.incidents[2].id,
     "incident_999"}

\* the lists a caller passes: the first resource, the first two, and an id
\* that no resource has
ResourceIdInputs ==
    { << emergencyManager.resources[1].id >>,
      << emergencyManager.resources[1].id, emergencyManager.resources[2].id >>,
      << "ambulance_999" >> }

InitEmergency ==
    /\ call = NoCall
    /\ ret = Pending
    /\ Constructed
    /\ rngSeed \in (NumSeeds - EmergencySeeds)..(NumSeeds - 1)
    /\ clockHour = 0
    /\ OutsideManagerInit

\* initialize() on a fresh manager, emergency.js 20-40
EmergencyInitialize ==
    /\ ~ emergencyManager.initialized
    /\ LET loaded == loadSampleResources(loadSampleIncidents)
       IN  emergencyManager' =
               [incidents |-> loaded.incidents,
                resources |-> loaded.resources,
                responseStats |-> generateResponseStats(loaded.incidents,
                                                        loaded.resources),
                initialized |-> TRUE]
    /\ call' = [op |-> "initialize"]
    /\ ret' = Returned(Null)
    /\ UNCHANGED <<emergencyCalls, outsideEmergency>>

AssignResourcesToIncident ==
    /\ emergencyManager.initialized
    /\ emergencyCalls < MaxEmergencyCalls
    /\ \E incidentId \in IncidentIdInputs, resourceIds \in ResourceIdInputs :
          /\ call' = [op |-> "assignResourcesToIncident",
                      incidentId |-> incidentId, resourceIds |-> resourceIds]
          /\ IF getIncidentById(emergencyManager.incidents, incidentId) = 0
             THEN /\ ret' = Returned(Null)
                  /\ UNCHANGED emergencyManager
             ELSE /\ emergencyManager' =
                         assignResourcesToIncident(emergencyManager, incidentId,
                                                   resourceIds)
                  /\ ret' = Returned(emergencyManager'.incidents[
                                getIncidentById(emergencyManager.incidents, incidentId)])
    /\ emergencyCalls' = emergencyCalls + 1
    /\ UNCHANGED outsideEmergency

ReleaseResourcesFromIncident ==
    /\ emergencyManager.initialized
    /\ emergencyCalls < MaxEmergencyCalls
    /\ \E incidentId \in IncidentIdInputs, resourceIds \in ResourceIdInputs :
          /\ call' = [op |-> "releaseResourcesFromIncident",
                      incidentId |-> incidentId, resourceIds |-> resourceIds]
          /\ IF getIncidentById(emergencyManager.incidents, incidentId) = 0
             THEN /\ ret' = Returned(Null)
                  /\ UNCHANGED emergencyManager
             ELSE /\ emergencyManager' =
                         releaseResourcesFromIncident(emergencyManager, incidentId,
                                                      resourceIds)
                  /\ ret' = Returned(emergencyManager'.incidents[
                                getIncidentById(emergencyManager.incidents, incidentId)])
    /\ emergencyCalls' = emergencyCalls + 1
    /\ UNCHANGED outsideEmergency

NextEmergency ==
    EmergencyInitialize \/ AssignResourcesToIncident \/ ReleaseResourcesFromIncident

SpecEmergency == InitEmergency /\ [][NextEmergency]_vars

---------------------------------------------------------------------------
(* Claims about the emergency manager, checked under SpecEmergency *)

\* C19: every id in an incident's assignedResources is the id of a
\* resource that is busy and assigned to that incident, and no id is in the
\* assignedResources of two incidents.
C19_AssignmentsConsistent ==
    LET incidents == emergencyManager.incidents
        resources == emergencyManager.resources
    IN  /\ \A p \in 1..Len(incidents) :
              \A id \in Ids(incidents[p].assignedResources) :
                  \E i \in 1..Len(resources) :
                      /\ resources[i].id = id
                      /\ resources[i].status = "busy"
                      /\ resources[i].assignedIncidentId = incidents[p].id
        /\ \A p \in 1..Len(incidents), q \in 1..Len(incidents) :
              p # q => Ids(incidents[p].assignedResources)
                         \cap Ids(incidents[q].assignedResources) = {}

---------------------------------------------------------------------------
(* The traffic module, src/unnamed/part_000: TrafficPredictor and the
   page-load handler initializeTrafficModule.  Of a traffic pattern its
   bounds and its number of points are kept, of a prediction its horizon
   and its number of points; the congestion, speed and travel time values
   are left out.  The hour read by new Date() is counted from the start of
   the week (Sunday 0:00).

   generatePrediction is an async function: a call runs up to its await
   and returns; what follows the await is queued as a microtask, and the
   microtasks run in order once the handler in progress has returned. *)

sampleRoutes == << "route_001", "route_002", "route_003", "route_004", "route_005" >>
timeHorizons == << 15, 30, 60 >>

\* generateSampleTrafficPattern: hours * pointsPerHour = 36 values within
\* the bounds
generateSampleTrafficPattern(minCongestion, maxCongestion) ==
    [min |-> minCongestion, max |-> maxCongestion, points |-> 3 * 12]

\* loadSampleHistoricalData: historicalData afterwards
loadSampleHistoricalData ==
    [routeId \in {sampleRoutes[i] : i \in 1..Len(sampleRoutes)} |->
        [weekday |-> [morning |-> generateSampleTrafficPattern(70, 90),
                      afternoon |-> generateSampleTrafficPattern(50, 70),
                      evening |-> generateSampleTrafficPattern(75, 95)],
         weekend |-> [morning |-> generateSampleTrafficPattern(30, 50),
                      afternoon |-> generateSampleTrafficPattern(60, 80),
                      evening |-> generateSampleTrafficPattern(40, 60)]]]

\* getHistoricalPattern at the hour now; the empty array has no points
getHistoricalPattern(historicalData, routeId, now) ==
    LET hour == now % 24
        day == (now \div 24) % 7
        dayType == IF day = 0 \/ day = 6 THEN "weekend" ELSE "weekday"
        timeOfDay == IF hour >= 6 /\ hour < 12 THEN "morning"
                     ELSE IF hour >= 12 /\ hour < 18 THEN "afternoon"
                     ELSE "evening"
    IN  IF routeId \in DOMAIN historicalData
        THEN historicalData[routeId][dayType][timeOfDay]
        ELSE [min |-> 0, max |-> 0, points |-> 0]

\* loadSampleRealTimeData: realTimeData afterwards; route i has an incident
\* when its Math.random() value exceeds 0.7
loadSampleRealTimeData(historicalData, now) ==
    [routeId \in {sampleRoutes[i] : i \in 1..Len(sampleRoutes)} |->
        LET i == CHOOSE j \in 1..Len(sampleRoutes) : sampleRoutes[j] = routeId
        IN  [points |-> getHistoricalPattern(historicalData, routeId, now).points,
             incidents |-> IF 10 * Random(i) > 7 * RandomLevels THEN 1 ELSE 0]]

\* `${routeId}_${timeHorizon}`
PredictionKey(routeId, timeHorizon) == routeId \o "_" \o ToString(timeHorizon)

\* generatePrediction up to its await: the continuation that is queued,
\* with the values it has read
generatePredictionQueued(predictor, routeId, timeHorizon, now) ==
    [routeId |-> routeId,
     timeHorizon |-> timeHorizon,
     historical |-> getHistoricalPattern(predictor.historicalData, routeId, now),
     current |-> IF routeId \in DOMAIN predictor.realTimeData
                 THEN predictor.realTimeData[routeId]
                 ELSE [points |-> 0, incidents |-> 0]]

\* generateAllPredictions: the continuations queued, route by route and
\* horizon by horizon
generateAllPredictions(predictor, now) ==
    [n \in 1..(Len(sampleRoutes) * Len(timeHorizons)) |->
        generatePredictionQueued(predictor,
            sampleRoutes[((n - 1) \div Len(timeHorizons)) + 1],
            timeHorizons[((n - 1) % Len(timeHorizons)) + 1], now)]

\* generatePrediction after its await: predictions with the prediction of
\* this continuation stored
generatePredictionResumed(predictions, job) ==
    (PredictionKey(job.routeId, job.timeHorizon) :>
        [defined |-> TRUE, timeHorizon |-> job.timeHorizon,
         points |-> job.timeHorizon \div 5])
      @@ predictions

NoPrediction == [defined |-> FALSE, timeHorizon |-> 0, points |-> 0]

\* getPrediction: undefined when the key is not in the map
getPrediction(predictions, routeId, timeHorizon) ==
    IF PredictionKey(routeId, timeHorizon) \in DOMAIN predictions
    THEN predictions[PredictionKey(routeId, timeHorizon)]
    ELSE NoPrediction

\* loadTrafficData: the list handed to updateTrafficDataDisplay
loadTrafficData(predictions, selected) ==
    LET timeHorizon == IF selected.defined THEN selected.val ELSE 30
    IN  [i \in 1..Len(sampleRoutes) |->
            [routeId |-> sampleRoutes[i],
             prediction |-> getPrediction(predictions, sampleRoutes[i], timeHorizon)]]

---------------------------------------------------------------------------
(* The traffic page as a state machine *)

TrafficSeeds == 2        \* generator states tried
TrafficClockStride == 6  \* the page is loaded at a multiple of it

SelectInputs == {Undefined} \cup {Num(timeHorizons[i]) : i \in 1..Len(timeHorizons)}

InitTraffic ==
    /\ call = NoCall
    /\ ret = Pending
    /\ Constructed
    /\ rngSeed \in 0..(TrafficSeeds - 1)
    /\ clockHour \in {h \in 0..(7 * 24 - 1) : h % TrafficClockStride = 0}
    /\ NoForecastRun
    /\ EmergencyConstructed
    /\ TransportConstructed
    /\ CitizenConstructed
    /\ TrafficPredictorConstructed
    /\ \E selected \in SelectInputs : trafficModule = PageLoading(selected)

\* DOMContentLoaded: initializeTrafficModule calls trafficPredictor.initialize()
TrafficInitialize ==
    /\ trafficModule.pc = "loading"
    /\ ~ trafficPredictor.initialized
    /\ LET historicalData == loadSampleHistoricalData
           loaded == [trafficPredictor EXCEPT
                         !.historicalData = historicalData,
                         !.realTimeData =
                             loadSampleRealTimeData(historicalData, clockHour)]
       IN  /\ trafficPredictor' = [loaded EXCEPT !.initialized = TRUE]
           /\ microtasks' = microtasks \o generateAllPredictions(loaded, clockHour)
    /\ trafficModule' = [trafficModule EXCEPT !.pc = "initialized"]
    /\ call' = [op |-> "initialize"]
    /\ ret' = Returned(Null)
    /\ UNCHANGED outsideTraffic

\* initializeTrafficModule goes on: the listeners are set up, loadTrafficData()
\* is called and the handler returns
LoadTrafficData ==
    /\ trafficModule.pc = "initialized"
    /\ trafficModule' =
           [trafficModule EXCEPT
               !.pc = "idle",
               !.predictions = loadTrafficData(trafficPredictor.predictions,
                                               trafficModule.selected)]
    /\ call' = [op |-> "loadTrafficData"]
    /\ ret' = Returned(Null)
    /\ UNCHANGED <<trafficPredictor, microtasks, outsideTraffic>>

\* no handler is running: the first waiting continuation runs to its end
RunMicrotask ==
    /\ trafficModule.pc = "idle"
    /\ microtasks # <<>>
    /\ trafficPredictor' =
           [trafficPredictor EXCEPT
               !.predictions = generatePredictionResumed(@, Head(microtasks))]
    /\ microtasks' = Tail(microtasks)
    /\ UNCHANGED <<call, ret, trafficModule, outsideTraffic>>

\* the 'change' event of the time horizon selector: loadTrafficData()
TimeHorizonChanged ==
    /\ trafficModule.pc = "idle"
    /\ microtasks = <<>>
    /\ trafficModule.selected.defined
    /\ \E i \in 1..Len(timeHorizons) :
          /\ trafficModule.selected # Num(timeHorizons[i])
          /\ trafficModule' =
                 [trafficModule EXCEPT
                     !.selected = Num(timeHorizons[i]),
                     !.predictions = loadTrafficData(trafficPredictor.predictions,
                                                     Num(timeHorizons[i]))]
    /\ call' = [op |-> "loadTrafficData"]
    /\ ret' = Returned(Null)
    /\ UNCHANGED <<trafficPredictor, microtasks, outsideTraffic>>

NextTraffic ==
    TrafficInitialize \/ LoadTrafficData \/ RunMicrotask \/ TimeHorizonChanged

SpecTraffic == InitTraffic /\ [][NextTraffic]_vars

---------------------------------------------------------------------------
(* Claims about the traffic page, checked under SpecTraffic *)

\* C20: once trafficPredictor.initialize() has returned with initialized =
\* true a prediction is stored for every sample route and each of the
\* horizons 15, 30 and 60, and every entry of the list that loadTrafficData
\* has built holds a defined prediction.
C20_PredictionsReadyAtLoad ==
    /\ trafficPredictor.initialized =>
          \A i \in 1..Len(sampleRoutes), j \in 1..Len(timeHorizons) :
              PredictionKey(sampleRoutes[i], timeHorizons[j])
                  \in DOMAIN trafficPredictor.predictions
    /\ trafficModule.pc = "idle" =>
          \A i \in 1..Len(trafficModule.predictions) :
              trafficModule.predictions[i].prediction.defined


---------------------------------------------------------------------------
(* The Transportation module, transportation.js.  A stop keeps its id, its *)
(* name and its latitude (in ten-thousandths of a degree above 40.7), a    *)
(* route its id, its type, its stops and its accessibility.  Amenities,    *)
(* accessibility of the stops, names and colours of the routes,            *)
(* frequencies and operating hours, vehicles, schedules, delays and crowd  *)
(* levels are left out, and so are the clock times of a journey: a         *)
(* journey keeps its travel times in minutes.                              *)

\* stopLocations, transportation.js 51-64
stopLocations ==
    << [lat |-> 128, name |-> "Downtown Terminal"],
       [lat |-> 138, name |-> "Westside Station"],
       [lat |-> 118, name |-> "Eastside Hub"],
       [lat |-> 148, name |-> "North Square"],
       [lat |-> 108, name |-> "South Junction"],
       [lat |-> 158, name |-> "Central Park Station"],
       [lat |-> 168, name |-> "Industrial Zone Terminal"],
       [lat |-> 98,  name |-> "Residential Area Stop"],
       [lat |-> 135, name |-> "City Center"],
       [lat |-> 145, name |-> "University Station"],
       [lat |-> 115, name |-> "Hospital Stop"],
       [lat |-> 125, name |-> "Shopping District"] >>

\* the stops that loadSampleStops pushes (67-103), index counted from 1
sampleStops ==
    [i \in 1..Len(stopLocations) |->
        [id |-> "stop_" \o PadStart3(i),
         name |-> stopLocations[i].name,
         lat |-> stopLocations[i].lat,
         type |-> IF i - 1 < 3 THEN "terminal"
                  ELSE IF i - 1 < 8 THEN "station" ELSE "stop"]]

routeTypes == << "bus", "subway", "tram", "train" >>

\* routeStops.sort((a, b) => a.location.lat - b.location.lat) on the stops
\* at the positions in S: the positions by increasing latitude
RECURSIVE sortByLat(_, _)
sortByLat(stops, S) ==
    IF S = {} THEN <<>>
    ELSE LET first == CHOOSE p \in S : \A q \in S : stops[p].lat <= stops[q].lat
         IN  <<first>> \o sortByLat(stops, S \ {first})

\* [...this.stops].sort(() => 0.5 - Math.random()).slice(0, numStops): which
\* stops a shuffle by a random comparator puts first is up to the engine's
\* sort; here the shuffle starts at a drawn stop and goes round the list in
\* drawn strides.  The positions of the stops taken.
shuffledSlice(stops, numStops, k) ==
    LET first == RandomFloor(Random(k + 1), Len(stops))
        strides == << 1, 5, 7, 11 >>
        stride == strides[RandomFloor(Random(k + 2), Len(strides)) + 1]
    IN  {((first + stride * j) % Len(stops)) + 1 : j \in 0..(numStops - 1)}

\* the i-th route of loadSampleRoutes (i from 0), 171-207; its draws start
\* at the k-th value of the generator
sampleRoute(stops, i, k) ==
    LET routeType == routeTypes[(i % Len(routeTypes)) + 1]
        numStops == 5 + RandomFloor(Random(k), 4)
        routeStops == sortByLat(stops, shuffledSlice(stops, numStops, k))
    IN  [id |-> "route_" \o PadStart3(i + 1),
         type |-> routeType,
         stops |-> [j \in 1..Len(routeStops) |-> stops[routeStops[j]].id],
         accessibility |-> routeType # "bus"]

NumRoutes == 5

\* loadSampleRoutes, 166-208: the routes pushed
loadSampleRoutes(stops) ==
    [i \in 1..NumRoutes |-> sampleRoute(stops, i - 1, 3 * (i - 1) + 1)]


\* array.includes(x) and array.indexOf(x), the latter counted from 0
includes(array, x) == \E i \in 1..Len(array) : array[i] = x
indexOf(array, x) ==
    IF includes(array, x)
    THEN (CHOOSE i \in 1..Len(array) :
              array[i] = x /\ \A j \in 1..(i - 1) : array[j] # x) - 1
    ELSE -1

\* Math.abs
MathAbs(x) == IF x < 0 THEN -x ELSE x

\* the position of the first stop with this id, 0 when there is none
getStopById(stops, stopId) ==
    IF \E i \in 1..Len(stops) : stops[i].id = stopId
    THEN CHOOSE i \in 1..Len(stops) :
             stops[i].id = stopId /\ \A j \in 1..(i - 1) : stops[j].id # stopId
    ELSE 0

\* a caller's options: whether it has the key maxTransfers, and its value
NoOptions == [given |-> FALSE, maxTransfers |-> Undefined]
MaxTransfers(value) == [given |-> TRUE, maxTransfers |-> value]

\* { ...defaultOptions, ...options }.maxTransfers, 617-625
routeOptionsMaxTransfers(options) ==
    IF options.given THEN options.maxTransfers ELSE Num(2)

\* reading a property of undefined
TypeError == "TypeError"

\* the direct journey on a route, 650-677
directJourney(stops, route, startStopId, endStopId) ==
    LET startIndex == indexOf(route.stops, startStopId)
        endIndex == indexOf(route.stops, endStopId)
        travelTime == MathAbs(endIndex - startIndex) * 5
        from == JsMin(startIndex, endIndex)
        to == JsMax(startIndex, endIndex) + 1
    IN  [success |-> TRUE,
         journeyType |-> "direct",
         route |-> [routeId |-> route.id,
                    routeType |-> route.type,
                    startStop |-> stops[getStopById(stops, startStopId)].name,
                    endStop |-> stops[getStopById(stops, endStopId)].name,
                    travelTime |-> travelTime,
                    stops |-> [j \in 1..(to - from) |->
                                  stops[getStopById(stops, route.stops[from + j])].name],
                    accessibility |-> route.accessibility]]

\* the journey with one transfer, 713-771
transferJourney(stops, firstRoute, secondRoute, transferStop, startStopId, endStopId) ==
    LET firstStartIndex == indexOf(firstRoute.stops, startStopId)
        firstEndIndex == indexOf(firstRoute.stops, transferStop.id)
        firstTravelTime == MathAbs(firstEndIndex - firstStartIndex) * 5
        secondStartIndex == indexOf(secondRoute.stops, transferStop.id)
        secondEndIndex == indexOf(secondRoute.stops, endStopId)
        secondTravelTime == MathAbs(secondEndIndex - secondStartIndex) * 5
        transferTime == 10
    IN  [success |-> TRUE,
         journeyType |-> "transfer",
         route |-> [segments |->
                        << [routeId |-> firstRoute.id,
                            routeType |-> firstRoute.type,
                            startStop |-> stops[getStopById(stops, startStopId)].name,
                            endStop |-> transferStop.name,
                            travelTime |-> firstTravelTime,
                            accessibility |-> firstRoute.accessibility],
                           [routeId |-> secondRoute.id,
                            routeType |-> secondRoute.type,
                            startStop |-> transferStop.name,
                            endStop |-> stops[getStopById(stops, endStopId)].name,
                            travelTime |-> secondTravelTime,
                            accessibility |-> secondRoute.accessibility] >>,
                    totalTravelTime |-> firstTravelTime + transferTime + secondTravelTime,
                    transferTime |-> transferTime,
                    transferLocation |-> transferStop.name,
                    accessibility |->
                        firstRoute.accessibility /\ secondRoute.accessibility]]

Failure(error) == [success |-> FALSE, error |-> error]

\* the transfer branch, 679-771: what the call returns or throws
findTransferRoute(stops, routes, startStopId, endStopId) ==
    LET IsCityCenter(stop) == stop.name = "City Center"
        centers == SelectSeq(stops, IsCityCenter)
    IN  IF centers = <<>> THEN Returned(Failure("No transfer stop found"))
        ELSE
        LET transferStop == centers[1]
            ViaTransfer(route) ==
                /\ includes(route.stops, transferStop.id)
                /\ \/ includes(route.stops, startStopId)
                   \/ includes(route.stops, endStopId)
            routesWithTransfer == SelectSeq(routes, ViaTransfer)
            WithStart(route) == includes(route.stops, startStopId)
            fromStart == SelectSeq(routesWithTransfer, WithStart)
        IN  IF Len(routesWithTransfer) < 2
            THEN Returned(Failure("No viable transfer route found"))
            \* firstRoute is undefined: the callback of the second find
            \* reads firstRoute.id
            ELSE IF fromStart = <<>> THEN Thrown(TypeError)
            ELSE
            LET firstRoute == fromStart[1]
                ToEnd(route) ==
                    route.id # firstRoute.id /\ includes(route.stops, endStopId)
                toEnd == SelectSeq(routesWithTransfer, ToEnd)
            \* secondRoute is undefined: line 718 reads secondRoute.stops
            IN  IF toEnd = <<>> THEN Thrown(TypeError)
                ELSE Returned(transferJourney(stops, firstRoute, toEnd[1],
                                              transferStop, startStopId, endStopId))

\* findOptimalRoute, 615-779: what the call returns or throws
findOptimalRoute(m, startStopId, endStopId, options) ==
    IF getStopById(m.stops, startStopId) = 0 \/ getStopById(m.stops, endStopId) = 0
    THEN Returned(Failure("Invalid stop ID"))
    ELSE
    LET WithStart(route) == includes(route.stops, startStopId)
        WithEnd(route) == includes(route.stops, endStopId)
        routesWithStart == SelectSeq(m.routes, WithStart)
        routesWithEnd == SelectSeq(m.routes, WithEnd)
        directRoutes == SelectSeq(routesWithStart, WithEnd)
    IN  IF Len(directRoutes) > 0
        THEN Returned(directJourney(m.stops, directRoutes[1], startStopId, endStopId))
        ELSE IF /\ Len(routesWithStart) > 0
                /\ Len(routesWithEnd) > 0
                /\ JsGT(routeOptionsMaxTransfers(options), 0)
        THEN findTransferRoute(m.stops, m.routes, startStopId, endStopId)
        ELSE Returned(Failure("No viable route found"))


---------------------------------------------------------------------------
(* The journey planner as a state machine: findOptimalRoute applied to a    *)
(* manager that holds the sample stops and the routes loadSampleRoutes      *)
(* builds from them.  (initialize() itself stops in loadSampleStops, after  *)
(* the stops are stored, at the call of this.calculateDistance in line 118: *)
(* the class spells that method CalculateDistance, line 141.  The routes    *)
(* are those of a manager on which loadSampleRoutes has run.)               *)

\* the ids a caller passes: the ids of the stops, and one that no stop has
StopIdInputs == {sampleStops[i].id : i \in 1..Len(sampleStops)} \cup {"stop_999"}

\* the options a caller passes: none (planJourney sets no maxTransfers),
\* no transfers, and a maxTransfers that is undefined
OptionsInputs == {NoOptions, MaxTransfers(Num(0)), MaxTransfers(Undefined)}

InitRoute ==
    /\ call = NoCall
    /\ ret = Pending
    /\ Constructed
    /\ rngSeed \in 0..(NumSeeds - 1)
    /\ clockHour = 0
    /\ NoForecastRun
    /\ EmergencyConstructed
    /\ TrafficConstructed
    /\ CitizenConstructed
    /\ transportationManager =
           [stops |-> sampleStops,
            routes |-> loadSampleRoutes(sampleStops),
            initialized |-> TRUE]

\* transportationManager.findOptimalRoute(startStopId, endStopId, options)
FindOptimalRoute ==
    /\ \E startStopId \in StopIdInputs, endStopId \in StopIdInputs,
          options \in OptionsInputs :
          /\ call' = [op |-> "findOptimalRoute", startStopId |-> startStopId,
                      endStopId |-> endStopId, options |-> options]
          /\ ret' = findOptimalRoute(transportationManager, startStopId,
                                     endStopId, options)
    /\ UNCHANGED <<transportationManager, outsideTransport>>

NextRoute == FindOptimalRoute

SpecRoute == InitRoute /\ [][NextRoute]_vars

---------------------------------------------------------------------------
(* Claims about the journey planner, checked under SpecRoute *)

---------------------------------------------------------------------------
(* The Emergency module, continued: the recommendation of resources, new   *)
(* incidents and changes of status, emergency.js 841-929 and 998-1070.     *)
(* An incident's location, description and affected area are left out.     *)

\* determineRequiredResourceTypes, 873-929
determineRequiredResourceTypes(incident) ==
    LET serious == incident.severity = "high" \/ incident.severity = "critical"
        When(test, type) == IF test THEN << type >> ELSE <<>>
    IN  CASE incident.type = "fire" ->
               << "fire_truck" >>
                 \o When(serious, "ambulance")
                 \o When(incident.subtype = "hazmat" \/ incident.subtype = "gas_leak",
                         "hazmat_unit")
          [] incident.type = "medical" ->
               << "ambulance" >> \o When(incident.severity = "critical", "ambulance")
          [] incident.type = "police" ->
               << "police_car" >> \o When(serious, "police_car")
          [] incident.type = "traffic" ->
               << "police_car" >> \o When(incident.subtype = "collision", "ambulance")
          [] incident.type = "weather" ->
               When(incident.subtype = "flooding" \/ incident.subtype = "fallen_tree",
                    "utility_vehicle")
                 \o When(serious, "fire_truck")
          [] incident.type = "infrastructure" ->
               << "utility_vehicle" >>
                 \o When(incident.subtype = "gas_leak"
                           \/ incident.subtype = "structural_damage", "fire_truck")
                 \o When(incident.subtype = "power_line_down", "police_car")
          [] OTHER -> << "police_car" >>

\* the ids pushed by requiredResourceTypes.forEach, 858-863, for the types
\* from position t on
RECURSIVE recommendedResources(_, _, _)
recommendedResources(availableResources, requiredResourceTypes, t) ==
    IF t > Len(requiredResourceTypes) THEN <<>>
    ELSE LET OfType(resource) == resource.type = requiredResourceTypes[t]
             resourcesOfType == SelectSeq(availableResources, OfType)
         IN  (IF Len(resourcesOfType) > 0 THEN << resourcesOfType[1].id >> ELSE <<>>)
               \o recommendedResources(availableResources, requiredResourceTypes, t + 1)

\* findOptimalResourceAllocation, 841-866
findOptimalResourceAllocation(m, incidentId) ==
    IF getIncidentById(m.incidents, incidentId) = 0 THEN <<>>
    ELSE LET incident == m.incidents[getIncidentById(m.incidents, incidentId)]
             requiredResourceTypes == determineRequiredResourceTypes(incident)
             IsAvailable(resource) ==
                 /\ includes(requiredResourceTypes, resource.type)
                 /\ resource.status = "available"
             availableResources == SelectSeq(m.resources, IsAvailable)
         IN  recommendedResources(availableResources, requiredResourceTypes, 1)

\* x || fallback on a string x: the empty string stands for every falsy
\* value, an absent property among them
OrElse(x, fallback) == IF x # "" THEN x ELSE fallback

\* addIncident, 998-1038, its Math.random() values taken from position k
\* on: the manager afterwards
addIncident(m, incidentData, k) ==
    LET type == OrElse(incidentData.type, "other")
        incident ==
            [id |-> "incident_" \o PadStart3(Len(m.incidents) + 1),
             type |-> type,
             subtype |-> OrElse(incidentData.subtype,
                                getIncidentSubtype(type, Random(k + 1))),
             severity |-> OrElse(incidentData.severity, "medium"),
             status |-> "reported",
             age |-> 0,
             assignedResources |-> <<>>,
             updates |-> << [status |-> "reported", message |-> MsgIncidentReported] >>,
             estimatedResolutionTime |->
                 Num(generateEstimatedResolutionTime(
                         OrElse(incidentData.severity, "medium"), Random(k + 2)))]
        incidents == Append(m.incidents, incident)
    IN  [m EXCEPT !.incidents = incidents,
                  !.responseStats = generateResponseStats(incidents, m.resources)]

\* variant: the statistics are not brought up to date (line 1035 left out)
updateIncidentStatusStaleStats(m, incidentId, status, message) ==
    LET at == getIncidentById(m.incidents, incidentId)
    IN  [m EXCEPT !.incidents[at].status = status,
                  !.incidents[at].updates =
                      Append(@, [status |-> status,
                                 message |-> OrElse(message,
                                     "Incident status updated to " \o status \o ".")]),
                  !.incidents[at].estimatedResolutionTime =
                      IF status = "resolved" THEN Null ELSE @]

\* variant: the estimated resolution time is kept on resolution
updateIncidentStatusKeepEstimate(m, incidentId, status, message) ==
    LET at == getIncidentById(m.incidents, incidentId)
        incidents ==
            [m.incidents EXCEPT
                ![at].status = status,
                ![at].updates =
                    Append(@, [status |-> status,
                               message |-> OrElse(message,
                                   "Incident status updated to " \o status \o ".")])]
    IN  [m EXCEPT !.incidents = incidents,
                  !.responseStats = generateResponseStats(incidents, m.resources)]

\* updateIncidentStatus, 1047-1070, on the manager m for a known incident:
\* the manager afterwards
updateIncidentStatus(m, incidentId, status, message) ==
    LET at == getIncidentById(m.incidents, incidentId)
        incidents ==
            [m.incidents EXCEPT
                ![at].status = status,
                ![at].updates =
                    Append(@, [status |-> status,
                               message |-> OrElse(message,
                                   "Incident status updated to " \o status \o ".")]),
                ![at].estimatedResolutionTime =
                    IF status = "resolved" THEN Null ELSE @]
    IN  [m EXCEPT !.incidents = incidents,
                  !.responseStats = generateResponseStats(incidents, m.resources)]


---------------------------------------------------------------------------
(* The emergency manager under all its calls: initialize(), then calls of  *)
(* addIncident, updateIncidentStatus, assignResourcesToIncident,           *)
(* releaseResourcesFromIncident and findOptimalResourceAllocation          *)

MaxResponseCalls == 2   \* calls made after initialize()

\* the calls made on the emergency manager and on the citizen manager
CallsMade == emergencyCalls + citizenCalls

\* the position in the generator's sequence at which a call of addIncident
\* starts: behind the sample data, two values for every incident held
AddIncidentDraws(m) == 190 + 2 * Len(m.incidents)

\* the incident ids a caller passes: the first incident, the last one (the
\* one added last, if any) and an id that no incident has
ResponseIncidentInputs ==
    {emergencyManager.incidents[1].id,
     emergencyManager.incidents[Len(emergencyManager.incidents)].id,
     "incident_999"}

\* the data a caller reports: a critical medical incident, a serious police
\* incident with its subtype, and an empty object
IncidentDataInputs ==
    {[type |-> "medical", subtype |-> "", severity |-> "critical"],
     [type |-> "police", subtype |-> "theft", severity |-> "high"],
     [type |-> "", subtype |-> "", severity |-> ""]}

\* the status and message a caller passes, the message left out or given
StatusInputs ==
    {[status |-> "resolved", message |-> ""],
     [status |-> "resolved", message |-> "All units have left the scene."],
     [status |-> "responding", message |-> ""]}

\* the lists of resources a caller passes: the first resource, and an id
\* that no resource has
ResponseResourceInputs ==
    { << emergencyManager.resources[1].id >>, << "ambulance_999" >> }

InitResponse ==
    /\ call = NoCall
    /\ ret = Pending
    /\ Constructed
    /\ rngSeed \in (NumSeeds - EmergencySeeds)..(NumSeeds - 1)
    /\ clockHour = 0
    /\ OutsideManagerInit

AddIncident ==
    /\ emergencyManager.initialized
    /\ CallsMade < MaxResponseCalls
    /\ \E incidentData \in IncidentDataInputs :
          /\ call' = [op |-> "addIncident", incidentData |-> incidentData]
          /\ emergencyManager' =
                 addIncident(emergencyManager, incidentData,
                             AddIncidentDraws(emergencyManager))
          /\ ret' = Returned(emergencyManager'.incidents[
                                 Len(emergencyManager'.incidents)])
    /\ emergencyCalls' = emergencyCalls + 1
    /\ UNCHANGED outsideEmergency

UpdateIncidentStatus ==
    /\ emergencyManager.initialized
    /\ CallsMade < MaxResponseCalls
    /\ \E incidentId \in ResponseIncidentInputs, update \in StatusInputs :
          /\ call' = [op |-> "updateIncidentStatus", incidentId |-> incidentId,
                      status |-> update.status, message |-> update.message]
          /\ IF getIncidentById(emergencyManager.incidents, incidentId) = 0
             THEN /\ ret' = Returned(Null)
                  /\ UNCHANGED emergencyManager
             ELSE /\ emergencyManager' =
                         updateIncidentStatus(emergencyManager, incidentId,
                                              update.status, update.message)
                  /\ ret' = Returned(emergencyManager'.incidents[
                                getIncidentById(emergencyManager.incidents, incidentId)])
    /\ emergencyCalls' = emergencyCalls + 1
    /\ UNCHANGED outsideEmergency

AssignToIncident ==
    /\ emergencyManager.initialized
    /\ CallsMade < MaxResponseCalls
    /\ \E incidentId \in ResponseIncidentInputs, resourceIds \in ResponseResourceInputs :
          /\ call' = [op |-> "assignResourcesToIncident",
                      incidentId |-> incidentId, resourceIds |-> resourceIds]
          /\ IF getIncidentById(emergencyManager.incidents, incidentId) = 0
             THEN /\ ret' = Returned(Null)
                  /\ UNCHANGED emergencyManager
             ELSE /\ emergencyManager' =
                         assignResourcesToIncident(emergencyManager, incidentId,
                                                   resourceIds)
                  /\ ret' = Returned(emergencyManager'.incidents[
                                getIncidentById(emergencyManager.incidents, incidentId)])
    /\ emergencyCalls' = emergencyCalls + 1
    /\ UNCHANGED outsideEmergency

ReleaseFromIncident ==
    /\ emergencyManager.initialized
    /\ CallsMade < MaxResponseCalls
    /\ \E incidentId \in ResponseIncidentInputs, resourceIds \in ResponseResourceInputs :
          /\ call' = [op |-> "releaseResourcesFromIncident",
                      incidentId |-> incidentId, resourceIds |-> resourceIds]
          /\ IF getIncidentById(emergencyManager.incidents, incidentId) = 0
             THEN /\ ret' = Returned(Null)
                  /\ UNCHANGED emergencyManager
             ELSE /\ emergencyManager' =
                         releaseResourcesFromIncident(emergencyManager, incidentId,
                                                      resourceIds)
                  /\ ret' = Returned(emergencyManager'.incidents[
                                getIncidentById(emergencyManager.incidents, incidentId)])
    /\ emergencyCalls' = emergencyCalls + 1
    /\ UNCHANGED outsideEmergency

FindOptimalResourceAllocation ==
    /\ emergencyManager.initialized
    /\ CallsMade < MaxResponseCalls
    /\ \E incidentId \in ResponseIncidentInputs :
          /\ call' = [op |-> "findOptimalResourceAllocation",
                      incidentId |-> incidentId]
          /\ ret' = Returned(findOptimalResourceAllocation(emergencyManager,
                                                           incidentId))
    /\ emergencyCalls' = emergencyCalls + 1
    /\ UNCHANGED <<emergencyManager, outsideEmergency>>

NextResponse ==
    \/ EmergencyInitialize
    \/ AddIncident
    \/ UpdateIncidentStatus
    \/ AssignToIncident
    \/ ReleaseFromIncident
    \/ FindOptimalResourceAllocation

SpecResponse == InitResponse /\ [][NextResponse]_vars

---------------------------------------------------------------------------
(* Claims about the emergency manager, checked under SpecResponse *)

AllocationDone ==
    call.op = "findOptimalResourceAllocation" /\ ret.status = "returned"

\* the incident a call was about, when the manager has it
KnownIncident == getIncidentById(emergencyManager.incidents, call.incidentId) # 0

\* C22: the list findOptimalResourceAllocation returns holds only ids of
\* existing resources that are available and of a type required for the
\* incident, holds no id twice, and is empty for an unknown incident id
C22_AllocationDistinctAvailable ==
    AllocationDone =>
        LET ids == ret.value
            m == emergencyManager
        IN  /\ \A j \in 1..Len(ids) :
                  /\ getResourceById(m.resources, ids[j]) # 0
                  /\ m.resources[getResourceById(m.resources, ids[j])].status
                        = "available"
                  /\ KnownIncident
                  /\ includes(determineRequiredResourceTypes(
                                  m.incidents[getIncidentById(m.incidents,
                                                              call.incidentId)]),
                              m.resources[getResourceById(m.resources, ids[j])].type)
            /\ \A i, j \in 1..Len(ids) : i # j => ids[i] # ids[j]
            /\ ~ KnownIncident => ids = <<>>


\* the incidents of the manager whose status is 'resolved'
ResolvedIncidents ==
    {i \in 1..Len(emergencyManager.incidents) :
        emergencyManager.incidents[i].status = "resolved"}

\* C25: after every addIncident, updateIncidentStatus,
\* assignResourcesToIncident and releaseResourcesFromIncident the
\* statistics count the incidents held: total is their number, active and
\* resolved add up to it, and resolved is the number of incidents whose
\* status is 'resolved'
C25_CountsMatchIncidents ==
    emergencyManager.initialized =>
        LET counts == emergencyManager.responseStats.incidentCounts
        IN  /\ counts.total = Len(emergencyManager.incidents)
            /\ counts.active + counts.resolved = counts.total
            /\ counts.resolved = Cardinality(ResolvedIncidents)

\* an incident that addIncident created has been resolved by
\* updateIncidentStatus
C25_Witness ==
    /\ call.op = "updateIncidentStatus"
    /\ call.status = "resolved"
    /\ KnownIncident
    /\ LET incident ==
               emergencyManager.incidents[
                   getIncidentById(emergencyManager.incidents, call.incidentId)]
       IN  incident.type = "other" /\ incident.status = "resolved"
    /\ emergencyManager.responseStats.incidentCounts.total
          = Len(emergencyManager.incidents)

\* the updates of every incident held before the step are the first
\* updates of the same incident after it
UpdatesOnlyGrow ==
    /\ Len(emergencyManager'.incidents) >= Len(emergencyManager.incidents)
    /\ \A i \in 1..Len(emergencyManager.incidents) :
          LET before == emergencyManager.incidents[i]
              after == emergencyManager'.incidents[i]
          IN  /\ after.id = before.id
              /\ Len(after.updates) >= Len(before.updates)
              /\ SubSeq(after.updates, 1, Len(before.updates)) = before.updates

\* what must hold of the incidents in every state
ResolvedAndLastUpdate ==
    \A i \in 1..Len(emergencyManager.incidents) :
        LET incident == emergencyManager.incidents[i]
        IN  /\ incident.status = "resolved" => incident.estimatedResolutionTime = Null
            /\ incident.updates # <<>>
            /\ incident.updates[Len(incident.updates)].status = incident.status

\* C26: after any sequence of addIncident and updateIncidentStatus calls
\* every incident whose status is 'resolved' has a null
\* estimatedResolutionTime, the status of its last update is its current
\* status, and no step takes an update away from an incident's list
C26_ResolvedHasNoEstimate ==
    [] ResolvedAndLastUpdate /\ [][UpdatesOnlyGrow]_vars

\* an incident that addIncident gave an estimate has been resolved by
\* updateIncidentStatus and has two updates
C26_Witness ==
    /\ call.op = "updateIncidentStatus"
    /\ call.status = "resolved"
    /\ KnownIncident
    /\ LET incident ==
               emergencyManager.incidents[
                   getIncidentById(emergencyManager.incidents, call.incidentId)]
       IN  /\ incident.type = "police"
           /\ incident.subtype = "theft"
           /\ incident.age = 0
           /\ Len(incident.updates) = 2
           /\ incident.estimatedResolutionTime = Null


---------------------------------------------------------------------------
(* The Citizen Engagement module, citizen.js.  An issue keeps its id, type, *)
(* status, votes, updates (status and message), its estimated resolution    *)
(* date as the days from now, and its priority; a project its id, status    *)
(* and votes; a notification its id, its age and whether it was read.       *)
(* Titles, descriptions, locations, users, images and timestamps are left   *)
(* out, and so is the user feedback.  In this module a value of             *)
(* Math.random() is a multiple of 1 / FineLevels, so that                   *)
(* Math.floor(Math.random() * 51) takes every number of votes from 0 to 50. *)

FineLevels == 51

\* the k-th value Math.random() returns, as the numerator over FineLevels
RandomFine(k) == (rngSeed * (2 * k + 1) + k * k) % FineLevels

\* Math.floor(Math.random() * n) for Math.random() = r / FineLevels
FineFloor(r, n) == (r * n) \div FineLevels

issueTypes ==
    << "pothole", "streetlight", "graffiti", "trash", "sidewalk", "water_leak",
       "traffic_signal", "noise", "other" >>
issueStatusOptions ==
    << "reported", "under_review", "in_progress", "resolved", "closed" >>
projectStatusOptions == << "proposed", "planning", "in_progress", "completed" >>

highPriorityTypes == {"water_leak", "traffic_signal"}
mediumPriorityTypes == {"pothole", "streetlight", "sidewalk"}

\* variant: many votes come first, before the status is looked at
calculateIssuePriorityVotesFirst(type, votes, status) ==
    IF type \in highPriorityTypes \/ votes >= 30 THEN "high"
    ELSE IF status = "resolved" \/ status = "closed" THEN "low"
    ELSE IF type \in mediumPriorityTypes \/ votes >= 10 THEN "medium"
    ELSE "low"

\* calculateIssuePriority, citizen.js 350-374
calculateIssuePriority(type, votes, status) ==
    IF status = "resolved" \/ status = "closed" THEN "low"
    ELSE IF type \in highPriorityTypes \/ votes >= 30 THEN "high"
    ELSE IF type \in mediumPriorityTypes \/ votes >= 10 THEN "medium"
    ELSE "low"

MsgIssueReported == "Issue reported by citizen."
MsgIssueUnderReview == "Issue is under review by city services."
MsgIssueInProgress == "Work has begun to address this issue."
MsgIssueResolved == "This issue has been resolved. Thank you for your report."
MsgIssueClosed ==
    "This issue has been verified as resolved and the case is now closed."

\* generateIssueUpdates, 279-331
generateIssueUpdates(status) ==
    << [status |-> "reported", message |-> MsgIssueReported] >>
      \o (IF status # "reported"
          THEN << [status |-> "under_review", message |-> MsgIssueUnderReview] >>
          ELSE <<>>)
      \o (IF status \in {"in_progress", "resolved", "closed"}
          THEN << [status |-> "in_progress", message |-> MsgIssueInProgress] >>
          ELSE <<>>)
      \o (IF status \in {"resolved", "closed"}
          THEN << [status |-> "resolved", message |-> MsgIssueResolved] >>
          ELSE <<>>)
      \o (IF status = "closed"
          THEN << [status |-> "closed", message |-> MsgIssueClosed] >>
          ELSE <<>>)

\* generateEstimatedResolutionDate, 337-341, as the days from now
generateEstimatedResolutionDate(r) == 5 + FineFloor(r, 26)

\* the issue object of loadSampleReportedIssues for index i - 1, 49-87
sampleIssue(i) ==
    LET k == 1 + 4 * (i - 1)
        issueType == issueTypes[FineFloor(RandomFine(k + 1), Len(issueTypes)) + 1]
        status ==
            issueStatusOptions[FineFloor(RandomFine(k + 2), Len(issueStatusOptions)) + 1]
        votes == FineFloor(RandomFine(k + 3), 51)
    IN  [id |-> "issue_" \o PadStart3(i),
         type |-> issueType,
         status |-> status,
         votes |-> votes,
         updates |-> generateIssueUpdates(status),
         estimatedResolutionDate |->
             IF status = "resolved" \/ status = "closed" THEN Null
             ELSE Num(generateEstimatedResolutionDate(RandomFine(k + 4))),
         priority |-> calculateIssuePriority(issueType, votes, status)]

\* variant: the list is left in the order it has
unsortedByVotes(list) == list

\* list.sort((a, b) => b.votes - a.votes): most votes first, entries with
\* the same votes in the order they had (the sort is stable)
sortByVotes(list) ==
    LET position(i) ==
            1 + Cardinality({j \in 1..Len(list) :
                                \/ list[j].votes > list[i].votes
                                \/ list[j].votes = list[i].votes /\ j < i})
    IN  [p \in 1..Len(list) |-> list[CHOOSE i \in 1..Len(list) : position(i) = p]]

\* loadSampleReportedIssues, 41-91: 15 to 25 issues
loadSampleReportedIssues ==
    LET numIssues == 15 + FineFloor(RandomFine(1), 11)
    IN  sortByVotes([i \in 1..numIssues |-> sampleIssue(i)])

\* loadSampleCommunityProjects, 379-440: 5 to 10 projects
loadSampleCommunityProjects ==
    LET numProjects == 5 + FineFloor(RandomFine(110), 6)
        project(i) ==
            LET k == 110 + 2 * (i - 1)
            IN  [id |-> "project_" \o PadStart3(i),
                 status |-> projectStatusOptions[
                     FineFloor(RandomFine(k + 1), Len(projectStatusOptions)) + 1],
                 votes |-> FineFloor(RandomFine(k + 2), 201)]
    IN  sortByVotes([i \in 1..numProjects |-> project(i)])

\* loadSampleNotifications, 813-846: 10 to 20 notifications, newest first
loadSampleNotifications ==
    LET numNotifications == 10 + FineFloor(RandomFine(140), 11)
        pushed ==
            [i \in 1..numNotifications |->
                LET k == 140 + 2 * (i - 1)
                IN  [id |-> "notification_" \o PadStart3(i),
                     age |-> RandomFine(k + 1),
                     read |-> 10 * RandomFine(k + 2) > 3 * FineLevels]]
        position(i) ==
            1 + Cardinality({j \in 1..numNotifications :
                                \/ pushed[j].age < pushed[i].age
                                \/ pushed[j].age = pushed[i].age /\ j < i})
    IN  [p \in 1..numNotifications |->
            pushed[CHOOSE i \in 1..numNotifications : position(i) = p]]

\* the position of the first entry of a list with this id, 0 when there is
\* none: getIssueById, getProjectById and this.notifications.find
findById(list, id) ==
    IF \E i \in 1..Len(list) : list[i].id = id
    THEN CHOOSE i \in 1..Len(list) :
             list[i].id = id /\ \A j \in 1..(i - 1) : list[j].id # id
    ELSE 0


\* what a method leaves behind: the manager afterwards and the value returned
Outcome(m, value) == [m |-> m, value |-> value]

\* addIssue, 1130-1172, with the Math.random() value r for the estimated
\* resolution date
addIssue(m, issueData, r) ==
    LET type == OrElse(issueData.type, "other")
        issue ==
            [id |-> "issue_" \o PadStart3(Len(m.reportedIssues) + 1),
             type |-> type,
             status |-> "reported",
             votes |-> 0,
             updates |-> << [status |-> "reported", message |-> MsgIssueReported] >>,
             estimatedResolutionDate |-> Num(generateEstimatedResolutionDate(r)),
             priority |-> calculateIssuePriority(type, 0, "reported")]
    IN  Outcome([m EXCEPT !.reportedIssues = sortByVotes(Append(@, issue))], issue)

\* updateIssueStatus, 1181-1205
updateIssueStatus(m, issueId, status, message) ==
    LET at == findById(m.reportedIssues, issueId)
    IN  IF at = 0 THEN Outcome(m, Null)
        ELSE LET issue ==
                     [m.reportedIssues[at] EXCEPT
                         !.status = status,
                         !.updates =
                             Append(@, [status |-> status,
                                        message |-> OrElse(message,
                                            "Issue status updated to " \o status \o ".")]),
                         !.estimatedResolutionDate =
                             IF status = "resolved" \/ status = "closed"
                             THEN Null ELSE @,
                         !.priority =
                             calculateIssuePriority(m.reportedIssues[at].type,
                                                    m.reportedIssues[at].votes, status)]
             IN  Outcome([m EXCEPT !.reportedIssues[at] = issue], issue)

\* variant: a vote for an id that no issue has goes to the first issue
voteForIssueOrFirst(m, issueId) ==
    LET found == findById(m.reportedIssues, issueId)
        at == IF found = 0 THEN 1 ELSE found
        issue ==
            [m.reportedIssues[at] EXCEPT
                !.votes = @ + 1,
                !.priority = calculateIssuePriority(m.reportedIssues[at].type,
                                                    m.reportedIssues[at].votes + 1,
                                                    m.reportedIssues[at].status)]
    IN  Outcome([m EXCEPT !.reportedIssues =
                              sortByVotes([m.reportedIssues EXCEPT ![at] = issue])],
                issue)

\* voteForIssue, 1212-1226
voteForIssue(m, issueId) ==
    LET at == findById(m.reportedIssues, issueId)
    IN  IF at = 0 THEN Outcome(m, Null)
        ELSE LET issue ==
                     [m.reportedIssues[at] EXCEPT
                         !.votes = @ + 1,
                         !.priority =
                             calculateIssuePriority(m.reportedIssues[at].type,
                                                    m.reportedIssues[at].votes + 1,
                                                    m.reportedIssues[at].status)]
             IN  Outcome([m EXCEPT !.reportedIssues =
                                       sortByVotes([m.reportedIssues EXCEPT
                                                       ![at] = issue])],
                         issue)

\* voteForProject, 1316-1327
voteForProject(m, projectId) ==
    LET at == findById(m.communityProjects, projectId)
    IN  IF at = 0 THEN Outcome(m, Null)
        ELSE LET project == [m.communityProjects[at] EXCEPT !.votes = @ + 1]
             IN  Outcome([m EXCEPT !.communityProjects =
                                       sortByVotes([m.communityProjects EXCEPT
                                                       ![at] = project])],
                         project)

\* markNotificationAsRead, 1410-1418
markNotificationAsRead(m, notificationId) ==
    LET at == findById(m.notifications, notificationId)
    IN  IF at = 0 THEN Outcome(m, Null)
        ELSE LET notification == [m.notifications[at] EXCEPT !.read = TRUE]
             IN  Outcome([m EXCEPT !.notifications[at] = notification], notification)


---------------------------------------------------------------------------
(* The citizen manager as a state machine: initialize(), then calls of     *)
(* addIssue, updateIssueStatus, voteForIssue, voteForProject and           *)
(* markNotificationAsRead                                                  *)

MaxCitizenCalls == 2   \* calls made after initialize()

\* the issue ids a caller passes: the issues one vote short of 10 and of 30
\* votes, the last issue of the list, and an id that no issue has
IssueIdInputs ==
    {citizenManager.reportedIssues[i].id :
        i \in {j \in 1..Len(citizenManager.reportedIssues) :
                  \/ citizenManager.reportedIssues[j].votes \in {9, 29}
                  \/ j = Len(citizenManager.reportedIssues)}}
      \cup {"issue_999"}

\* the data a citizen reports: a water leak, and an empty object
IssueDataInputs == {[type |-> "water_leak"], [type |-> ""]}

\* the status and message an administrator passes
IssueStatusInputs ==
    {[status |-> "resolved", message |-> ""],
     [status |-> "in_progress", message |-> "A crew has been assigned."]}

ProjectIdInputs ==
    {citizenManager.communityProjects[Len(citizenManager.communityProjects)].id,
     "project_999"}

NotificationIdInputs == {citizenManager.notifications[1].id, "notification_999"}

InitCitizen ==
    /\ call = NoCall
    /\ ret = Pending
    /\ Constructed
    /\ rngSeed \in 0..(NumSeeds - 1)
    /\ clockHour = 0
    /\ OutsideManagerInit

\* initialize() on a fresh manager, citizen.js 19-36
CitizenInitialize ==
    /\ ~ citizenManager.initialized
    /\ citizenManager' =
           [reportedIssues |-> loadSampleReportedIssues,
            communityProjects |-> loadSampleCommunityProjects,
            notifications |-> loadSampleNotifications,
            initialized |-> TRUE]
    /\ call' = [op |-> "initialize"]
    /\ ret' = Returned(Null)
    /\ UNCHANGED <<citizenCalls, outsideCitizen>>

\* a call on the citizen manager that leaves the outcome behind
CitizenCall(outcome) ==
    /\ citizenManager' = outcome.m
    /\ ret' = Returned(outcome.value)
    /\ citizenCalls' = citizenCalls + 1
    /\ UNCHANGED outsideCitizen

AddIssue ==
    /\ citizenManager.initialized
    /\ CallsMade < MaxCitizenCalls
    /\ \E issueData \in IssueDataInputs :
          /\ call' = [op |-> "addIssue", issueData |-> issueData]
          /\ CitizenCall(addIssue(citizenManager, issueData,
                                  RandomFine(200 + Len(citizenManager.reportedIssues))))

UpdateIssueStatus ==
    /\ citizenManager.initialized
    /\ CallsMade < MaxCitizenCalls
    /\ \E issueId \in IssueIdInputs, update \in IssueStatusInputs :
          /\ call' = [op |-> "updateIssueStatus", id |-> issueId,
                      status |-> update.status, message |-> update.message]
          /\ CitizenCall(updateIssueStatus(citizenManager, issueId,
                                           update.status, update.message))

VoteForIssue ==
    /\ citizenManager.initialized
    /\ CallsMade < MaxCitizenCalls
    /\ \E issueId \in IssueIdInputs :
          /\ call' = [op |-> "voteForIssue", id |-> issueId]
          /\ CitizenCall(voteForIssue(citizenManager, issueId))

VoteForProject ==
    /\ citizenManager.initialized
    /\ CallsMade < MaxCitizenCalls
    /\ \E projectId \in ProjectIdInputs :
          /\ call' = [op |-> "voteForProject", id |-> projectId]
          /\ CitizenCall(voteForProject(citizenManager, projectId))

MarkNotificationAsRead ==
    /\ citizenManager.initialized
    /\ CallsMade < MaxCitizenCalls
    /\ \E notificationId \in NotificationIdInputs :
          /\ call' = [op |-> "markNotificationAsRead", id |-> notificationId]
          /\ CitizenCall(markNotificationAsRead(citizenManager, notificationId))

NextCitizen ==
    \/ CitizenInitialize
    \/ AddIssue
    \/ UpdateIssueStatus
    \/ VoteForIssue
    \/ VoteForProject
    \/ MarkNotificationAsRead

SpecCitizen == InitCitizen /\ [][NextCitizen]_vars


---------------------------------------------------------------------------
(* Claims about the reported issues, checked under SpecCitizen *)

\* reportedIssues is ordered by votes from highest to lowest
SortedByVotes ==
    \A i, j \in 1..Len(citizenManager.reportedIssues) :
        i < j => citizenManager.reportedIssues[i].votes
                    >= citizenManager.reportedIssues[j].votes

\* the votes of the issue with an id, in a list that has it
VotesOf(issues, id) == issues[findById(issues, id)].votes

\* a step of voteForIssue on an existing issue gives that issue one vote
\* more and leaves the votes of every other issue as they are
VoteCountsOnce ==
    (call'.op = "voteForIssue"
        /\ findById(citizenManager.reportedIssues, call'.id) # 0) =>
        LET before == citizenManager.reportedIssues
            after == citizenManager'.reportedIssues
        IN  /\ Len(after) = Len(before)
            /\ \A i \in 1..Len(before) :
                  /\ findById(after, before[i].id) # 0
                  /\ VotesOf(after, before[i].id) =
                        IF before[i].id = call'.id
                        THEN before[i].votes + 1 ELSE before[i].votes

\* C23: after any sequence of addIssue, voteForIssue and updateIssueStatus
\* calls reportedIssues is ordered by votes from highest to lowest, and
\* each voteForIssue on an existing issue raises that issue's votes by
\* exactly 1 and changes no other issue's votes
C23_SortedAndOneVote == [] SortedByVotes /\ [][VoteCountsOnce]_vars

\* a vote has been counted for an issue, which now stands before an issue
\* that had as many votes
C23_Witness ==
    /\ call.op = "voteForIssue"
    /\ findById(citizenManager.reportedIssues, call.id) # 0
    /\ ret = Returned(citizenManager.reportedIssues[
                          findById(citizenManager.reportedIssues, call.id)])
    /\ \E j \in 1..Len(citizenManager.reportedIssues) :
          /\ j > findById(citizenManager.reportedIssues, call.id)
          /\ citizenManager.reportedIssues[j].votes = ret.value.votes - 1
    /\ SortedByVotes

\* the priority as the claim states it
StatedPriority(type, votes, status) ==
    CASE status \in {"resolved", "closed"} -> "low"
      [] status \notin {"resolved", "closed"}
           /\ (type \in {"water_leak", "traffic_signal"} \/ votes >= 30) -> "high"
      [] status \notin {"resolved", "closed"}
           /\ ~ (type \in {"water_leak", "traffic_signal"} \/ votes >= 30)
           /\ (type \in {"pothole", "streetlight", "sidewalk"} \/ votes >= 10)
           -> "medium"
      [] OTHER -> "low"

PriorityRank(priority) ==
    CASE priority = "low" -> 1 [] priority = "medium" -> 2 [] priority = "high" -> 3

\* every issue's stored priority is the stated one
PriorityIsStated ==
    \A i \in 1..Len(citizenManager.reportedIssues) :
        LET issue == citizenManager.reportedIssues[i]
        IN  issue.priority = StatedPriority(issue.type, issue.votes, issue.status)

\* a step of voteForIssue on an issue that is neither resolved nor closed
\* does not lower its priority
VoteKeepsPriority ==
    (call'.op = "voteForIssue"
        /\ findById(citizenManager.reportedIssues, call'.id) # 0
        /\ citizenManager.reportedIssues[
               findById(citizenManager.reportedIssues, call'.id)].status
             \notin {"resolved", "closed"}) =>
        PriorityRank(citizenManager'.reportedIssues[
                         findById(citizenManager'.reportedIssues, call'.id)].priority)
          >= PriorityRank(citizenManager.reportedIssues[
                              findById(citizenManager.reportedIssues, call'.id)].priority)

\* C24: after any sequence of addIssue, voteForIssue and updateIssueStatus
\* calls every issue's stored priority is calculateIssuePriority(type,
\* votes, status) as stated ('low' when resolved or closed, otherwise
\* 'high' for water_leak/traffic_signal or votes >= 30, otherwise 'medium'
\* for pothole/streetlight/sidewalk or votes >= 10, otherwise 'low'), and
\* voting on an unresolved issue never lowers its priority
C24_PriorityFollowsVotesAndStatus == [] PriorityIsStated /\ [][VoteKeepsPriority]_vars

\* the tenth vote has made an issue of no particular type 'medium'
C24_Witness ==
    /\ call.op = "voteForIssue"
    /\ ret.status = "returned"
    /\ ret.value # Null
    /\ ret.value.votes = 10
    /\ ret.value.type \notin highPriorityTypes \cup mediumPriorityTypes
    /\ ret.value.priority = "medium"
    /\ findById(citizenManager.reportedIssues, call.id) # 0
    /\ citizenManager.reportedIssues[
           findById(citizenManager.reportedIssues, call.id)] = ret.value

-----------------------------------------------------------------------------
\* The emergency manager and the citizen manager of one page, emergency.js
\* 1143-1147 and citizen.js 1422-1426: both are constructed and initialized,
\* then their methods are called in any order.  The calls of the two
\* managers share one budget, and the sample data are those of the first of
\* the EmergencySeeds generator states.

InitManagers ==
    /\ call = NoCall
    /\ ret = Pending
    /\ Constructed
    /\ rngSeed = NumSeeds - EmergencySeeds
    /\ clockHour = 0
    /\ OutsideManagerInit

NextManagers ==
    \/ NextResponse
    \/ NextCitizen

SpecManagers == InitManagers /\ [][NextManagers]_vars

\* the step is a call of one of the seven methods with an id that the
\* list it looks in does not hold
UnknownIdCall ==
    \/ /\ call'.op \in {"updateIncidentStatus", "assignResourcesToIncident",
                        "releaseResourcesFromIncident"}
       /\ getIncidentById(emergencyManager.incidents, call'.incidentId) = 0
    \/ /\ call'.op \in {"updateIssueStatus", "voteForIssue"}
       /\ findById(citizenManager.reportedIssues, call'.id) = 0
    \/ /\ call'.op = "voteForProject"
       /\ findById(citizenManager.communityProjects, call'.id) = 0
    \/ /\ call'.op = "markNotificationAsRead"
       /\ findById(citizenManager.notifications, call'.id) = 0

\* such a call returns null and changes neither manager's data
UnknownIdChangesNothing ==
    UnknownIdCall =>
        /\ ret' = Returned(Null)
        /\ emergencyManager'.incidents = emergencyManager.incidents
        /\ emergencyManager'.resources = emergencyManager.resources
        /\ citizenManager'.reportedIssues = citizenManager.reportedIssues
        /\ citizenManager'.communityProjects = citizenManager.communityProjects
        /\ citizenManager'.notifications = citizenManager.notifications

\* C27: updateIncidentStatus, assignResourcesToIncident,
\* releaseResourcesFromIncident, updateIssueStatus, voteForIssue,
\* voteForProject and markNotificationAsRead called with an id that does
\* not exist return null and leave every incident, resource, issue, project
\* and notification unchanged; in particular assigning resources to an
\* unknown incident marks no resource busy
C27_UnknownIdChangesNothing == [][UnknownIdChangesNothing]_vars

\* an available resource was assigned to an incident that does not exist,
\* after a vote for an issue that does not exist: null came back and the
\* resource is still available
C27_Witness ==
    /\ citizenManager.initialized
    /\ citizenCalls = 1
    /\ call.op = "assignResourcesToIncident"
    /\ getIncidentById(emergencyManager.incidents, call.incidentId) = 0
    /\ ret = Returned(Null)
    /\ getResourceById(emergencyManager.resources, call.resourceIds[1]) # 0
    /\ emergencyManager.resources[
           getResourceById(emergencyManager.resources,
                           call.resourceIds[1])].status = "available"

=============================================================================
